---- MODULE Spec2Model ----
(***************************************************************************)
(* Turing-AI server: the save coordinator (queueSave / saveMemory /        *)
(* saveMemorySync / gracefulShutdown) on Node's event loop, the learning  *)
(* store (IntelligentLearner.learnPattern), retrieval through the         *)
(* response cache (findBestResponse), the chat handler, loadMemory at     *)
(* startup, the sessions, createBackup, the rate limiter, and the page's  *)
(* APIClient.                                                              *)
(*                                                                         *)
(* One step of the coordinator specification is one turn of the event     *)
(* loop: a request handler, a timer or setImmediate callback, or the       *)
(* completion of one file-system call together with the promise reactions  *)
(* (microtasks) it triggers.                                               *)
(***************************************************************************)
EXTENDS Integers, Sequences, FiniteSets, TLC

\* ---------------------------------------------------------------- bounds
MaxChats == 2            \* chat requests served in one run
MaxFaults == 1           \* file-system calls that fail in one run
MaxTicks == 1            \* ticks of the auto-save timer in one run
MaxLearns == 2           \* learnPattern calls in one run of the learner
MaxFinds == 2            \* findBestResponse calls in one run
MaxBoots == 1            \* process restarts in one run
MaxBackupRuns == 2       \* createBackup() calls in one run
MaxChecks == 3           \* rateLimiter.check() calls in one run
MaxPasses == 3           \* half windows of time that pass in one run
MaxSends == 2            \* sendMessage calls of the page in one run

\* ------------------------------------------------------ program constants
SAVE_EVERY == 10         \* totalMessages % 10 === 0 triggers queueSave
CLUSTER_CAP == 20        \* entries kept per semantic cluster
PAIRS_CAP == 1000        \* entries kept in contextPairs
PAIR_MIN_QUALITY == 60   \* quality >= 60 goes to contextPairs
REINFORCE_BOOST == 2     \* quality + 2 on reinforcement
MAX_QUALITY == 100       \* Math.min(100, ...)
REPLACE_MARGIN == 10     \* quality > existing.quality + 10
RELEARN_DAYS == 30       \* ageInDays > 30
CACHE_LIMIT == 1000      \* responseCache: this.cache.size > 1000
MIN_RELEVANCE == 30      \* scored[0].relevanceScore > 30
MAX_CONVERSATION_HISTORY == 10  \* exchanges kept per session
MIN_QUALITY_SCORE == 40  \* quality >= 40 is learned
MAX_BACKUPS == 7         \* backup files kept
RATE_LIMIT_WINDOW_MS == 60000
RATE_LIMIT_MAX_REQUESTS == 60
RETRY_ATTEMPTS == 3      \* the page's CONFIG
RETRY_DELAY == 1000

VARIABLES
  stats,          \* globalMemory.stats: liveConversationsLearned, totalMessages
  saveScheduled,  \* let saveScheduled
  immediates,     \* setImmediate callbacks of queueSave not yet run
  chain,          \* tasks chained on saveQueue behind the running one
  saves,          \* the saveMemory() executions: the queued task's, shutdown's
  tmpFile,        \* MEMORY_FILE + '.tmp'
  tmpClash,       \* a writeFile truncated tmpFile while another was writing it
  primary,        \* MEMORY_FILE
  persTmp,        \* whether PERSISTENT_MEMORY_FILE + '.tmp' exists
  sd,             \* gracefulShutdown: its position and what it has done
  faults,         \* file-system failures still to come
  chats,          \* chat requests served
  ticks,          \* ticks of the auto-save timer
  pgPoolOn,       \* pgPool !== null (DATABASE_URL set)
  forceSync,      \* FORCE_SYNC_ON_LEARN
  owedLearned,    \* liveConversationsLearned at the latest queueSave() call
                  \* that no queued save started since has in its snapshot
  owedAtSignal,   \* queued saves requested before the signal, not completed
  semanticClusters, \* globalMemory.semanticClusters: keyword -> entries
  contextPairs,   \* globalMemory.contextPairs
  qualityScores,  \* globalMemory.qualityScores: input -> last quality
  now,            \* Date.now(), in days
  learns,         \* learnPattern calls made
  last,           \* the latest learnPattern call and the run of equal calls
  responseCache,  \* responseCache.cache, in insertion order
  answer,         \* the latest findBestResponse call and what it returned
  finds,          \* findBestResponse calls made
  sessions,       \* sessionManager.conversationBuffer: session -> exchanges
  reply,          \* the latest chat request and the response sent
  garbageFiltered, \* globalMemory.stats.garbageFiltered
  run,            \* the queued task's saveMemory(): position and snapshot
  outcome,        \* how the latest save ended, and the saves failed so far
  disk,           \* MEMORY_FILE and PERSISTENT_MEMORY_FILE as texts
  remote,         \* Postgres and Replit DB: the stored text, the request
  replitOn,       \* REPLIT_DB_URL is set
  shape,          \* JSON types of globalMemory's fields
  listening,      \* app.listen was called
  boots,          \* process restarts
  backups,        \* BACKUP_DIR and the createBackup() runs
  rateLimiter,    \* rateLimiter.limits, Date.now() and the latest check()
  apiClient       \* the page's APIClient: the sendMessage call in progress

cvars == <<stats, saveScheduled, immediates, chain, saves, tmpFile, tmpClash,
           primary, persTmp, sd, faults, chats, ticks, pgPoolOn,
           forceSync, owedLearned, owedAtSignal>>

lvars == <<semanticClusters, contextPairs, qualityScores, now, learns,
           last>>

fvars == <<responseCache, answer, finds>>

svars == <<sessions, reply, garbageFiltered, run, outcome, disk, remote,
           replitOn, shape, listening, boots>>

pvars == <<backups, rateLimiter, apiClient>>

\* what the save coordinator does not touch
ovars == <<lvars, fvars, svars, pvars>>

vars == <<cvars, ovars>>

\* ------------------------------------------------------------ file content
NoStats == [learned |-> 0 - 1, totalMessages |-> 0 - 1]
Absent == [kind |-> "absent", snap |-> NoStats, fmt |-> "none"]
Torn == [kind |-> "torn", snap |-> NoStats, fmt |-> "none"]

\* JSON.stringify(globalMemory, null, 2) in saveMemory
Pretty(s) == [kind |-> "data", snap |-> s, fmt |-> "pretty"]

\* JSON.stringify(globalMemory) in saveMemorySync
Compact(s) == [kind |-> "data", snap |-> s, fmt |-> "compact"]

\* ------------------------------------------------------- save executions
Savers == {"queued", "shutdown"}
Other(w) == IF w = "queued" THEN "shutdown" ELSE "queued"

\* pc: the file-system call the execution is waiting for; snap: memoryStr;
\* ino: where the temp file it has open lives now
Idle == [pc |-> "idle", snap |-> NoStats, ino |-> "none"]

\* saveMemory() up to its first await: memoryStr = JSON.stringify(globalMemory)
\* and fs.writeFile(tempFile) is issued
StartSave(s) == [pc |-> "openTmp", snap |-> s, ino |-> "none"]

Running(e) == e.pc # "idle"
WritingAt(e, where) == e.pc = "writeTmp" /\ e.ino = where

\* rename(x, MEMORY_FILE) replaces the primary file: a writer whose open file
\* was the temp file now writes the primary, one that wrote the old primary
\* writes an unlinked file
AfterRename(e, fromTmp) ==
  IF e.pc # "writeTmp" THEN e
  ELSE IF e.ino = "primary" THEN [e EXCEPT !.ino = "gone"]
  ELSE IF e.ino = "tmp" /\ fromTmp THEN [e EXCEPT !.ino = "primary"]
  ELSE e

Alive == sd.pc # "exited"

\* ------------------------------------------------------------- queueSave
\* c = [sched, imm, req]: saveScheduled, pending setImmediate callbacks, and
\* the store version of the latest call

\* a queueSave that sets the flag and registers no callback
queueSaveFlagOnly(c, learnedNow) ==
  [c EXCEPT !.sched = TRUE, !.req = learnedNow]

queueSave(c, learnedNow) ==
  IF c.sched THEN [c EXCEPT !.req = learnedNow]
  ELSE [sched |-> TRUE, imm |-> c.imm + 1, req |-> learnedNow]

\* a queued task starts with snapshot s: what is still owed afterwards
StillOwed(owed, s) == IF s.learned >= owed THEN 0 - 1 ELSE owed

\* saveScheduled after the first statement of the queued task
TaskStartFlagKept(sched) == sched

TaskStartFlag(sched) == FALSE

\* a .catch that sets the flag instead
TaskEndFlagSet(sched, threw) == IF threw THEN TRUE ELSE sched

\* saveScheduled after the task settled: .catch resets it
TaskEndFlag(sched, threw) == IF threw THEN FALSE ELSE sched

Coord == [sched |-> saveScheduled, imm |-> immediates, req |-> owedLearned]

SetCoord(c) ==
  /\ saveScheduled' = c.sched
  /\ immediates' = c.imm
  /\ owedLearned' = c.req

\* ---------------------------------------------------------- saveMemorySync
\* writeFileSync(MEMORY_FILE + '.sync.tmp') and renameSync onto MEMORY_FILE;
\* an error is caught and logged
saveMemorySync(s, ok) == IF ok THEN Compact(s) ELSE primary

\* --------------------------------------------------------------- Init
\* the state after loadMemory() has installed the snapshot a previous run
\* left in MEMORY_FILE, one message short of the next periodic save
CoordInit ==
  /\ stats = [learned |-> 0, totalMessages |-> SAVE_EVERY - 1]
  /\ primary = Pretty(stats)
  /\ saveScheduled = FALSE
  /\ immediates = 0
  /\ chain = 0
  /\ saves = [w \in Savers |-> Idle]
  /\ tmpFile = Absent
  /\ tmpClash = FALSE
  /\ persTmp = FALSE
  /\ sd = [pc |-> "none", awaitLeft |-> 0, sigLearned |-> 0 - 1,
           finalThrew |-> FALSE, syncRan |-> FALSE, syncOk |-> FALSE]
  /\ faults = MaxFaults
  /\ chats = 0
  /\ ticks = 0
  /\ pgPoolOn \in BOOLEAN
  /\ forceSync \in BOOLEAN
  /\ owedLearned = 0 - 1
  /\ owedAtSignal = 0

Config == <<pgPoolOn, forceSync>>
Counts == <<chats, ticks>>
Files == <<tmpFile, tmpClash, primary, persTmp>>

\* ------------------------------------------------- app.post('/api/chat')
\* a non-garbage request; learn: the previous message of the session exists
\* and the pair's quality reaches MIN_QUALITY_SCORE
Chat(learn) ==
  /\ Alive
  /\ chats < MaxChats
  /\ LET s1 == IF learn THEN [stats EXCEPT !.learned = @ + 1] ELSE stats
         s2 == [s1 EXCEPT !.totalMessages = @ + 1]
         sync == learn /\ forceSync
         c1 == IF learn /\ ~forceSync THEN queueSave(Coord, s1.learned)
               ELSE Coord
         c2 == IF s2.totalMessages % SAVE_EVERY = 0
               THEN queueSave(c1, s2.learned) ELSE c1
     IN /\ stats' = s2
        /\ SetCoord(c2)
        /\ \E ok \in BOOLEAN :
             /\ ok \/ (sync /\ faults > 0)
             /\ primary' = IF sync THEN saveMemorySync(s1, ok) ELSE primary
             /\ faults' = IF ok THEN faults ELSE faults - 1
             /\ saves' = IF sync /\ ok
                         THEN [w \in Savers |-> AfterRename(saves[w], FALSE)]
                         ELSE saves
  /\ chats' = chats + 1
  /\ UNCHANGED ticks
  /\ UNCHANGED <<chain, tmpFile, tmpClash, persTmp, sd, Config,
                 owedAtSignal>>
  /\ UNCHANGED ovars

\* setInterval(() => queueSave(), SAVE_INTERVAL_MS)
PeriodicSave ==
  /\ Alive
  /\ ticks < MaxTicks
  /\ ticks' = ticks + 1
  /\ SetCoord(queueSave(Coord, stats.learned))
  /\ UNCHANGED <<stats, chain, saves, Files, sd, faults, chats, Config,
                 owedAtSignal>>
  /\ UNCHANGED ovars

\* the setImmediate callback of queueSave: the task is chained on saveQueue;
\* on a settled queue it starts in the callback's own microtasks
ImmediateFires ==
  /\ Alive
  /\ immediates > 0
  /\ immediates' = immediates - 1
  /\ IF Running(saves["queued"])
     THEN /\ chain' = chain + 1
          /\ UNCHANGED <<saves, saveScheduled, owedLearned>>
     ELSE /\ saveScheduled' = TaskStartFlag(saveScheduled)
          /\ saves' = [saves EXCEPT !["queued"] = StartSave(stats)]
          /\ owedLearned' = StillOwed(owedLearned, stats)
          /\ UNCHANGED chain
  /\ UNCHANGED <<stats, Files, sd, faults, Counts, Config, owedAtSignal>>
  /\ UNCHANGED ovars

\* ------------------------------------------------ the queued task settles
\* the .then task of queueSave ends (.catch resets saveScheduled when it
\* threw); the reactions on its promise run in registration order: the
\* `await saveQueue` of gracefulShutdown, then the next chained task
FinishQueued(threw) ==
  LET startFinal == sd.pc = "awaitQueue" /\ sd.awaitLeft = 1
      startNext == chain > 0
  IN /\ saves' = [w \in Savers |->
                   IF w = "queued"
                   THEN IF startNext THEN StartSave(stats) ELSE Idle
                   ELSE IF startFinal THEN StartSave(stats) ELSE saves[w]]
     /\ saveScheduled' = IF startNext
                         THEN TaskStartFlag(TaskEndFlag(saveScheduled, threw))
                         ELSE TaskEndFlag(saveScheduled, threw)
     /\ chain' = IF startNext THEN chain - 1 ELSE chain
     /\ sd' = IF sd.pc = "awaitQueue"
              THEN [sd EXCEPT !.awaitLeft = @ - 1,
                              !.pc = IF startFinal THEN "finalSave" ELSE @]
              ELSE sd
     /\ owedAtSignal' = IF owedAtSignal > 0 THEN owedAtSignal - 1 ELSE 0
     /\ owedLearned' = IF startNext THEN StillOwed(owedLearned, stats)
                       ELSE owedLearned

\* --------------------------------------------------- gracefulShutdown, end
\* whether the second try block (saveMemorySync) is reached when the first
\* one (await saveQueue, saveMemory, createBackup) threw
RunsSyncSaveInTry(threw) == ~threw

RunsSyncSave(threw) == TRUE

\* from the end of the first try block (or its catch) on: saveMemorySync(),
\* then `await pgPool.end()` when there is a pool, else process.exit(0)
ShutdownSync(avail, threw) ==
  \E ok \in BOOLEAN :
    /\ ok \/ avail > 0
    /\ RunsSyncSave(threw) \/ ~ok
    /\ LET ran == RunsSyncSave(threw)
           good == ran /\ ok
       IN /\ primary' = saveMemorySync(stats, good)
          /\ faults' = IF ran /\ ~ok THEN avail - 1 ELSE avail
          /\ sd' = [sd EXCEPT !.pc = IF pgPoolOn THEN "pgEnd" ELSE "exited",
                              !.finalThrew = threw,
                              !.syncRan = ran,
                              !.syncOk = good]
          /\ saves' = [w \in Savers |->
                        LET e == IF w = "shutdown" THEN Idle
                                 ELSE saves[w]
                        IN IF good THEN AfterRename(e, FALSE) ELSE e]

\* a file-system call of saveMemory() rejects: saveMemory rethrows
Throw(w, avail) ==
  IF w = "queued"
  THEN /\ FinishQueued(TRUE)
       /\ faults' = avail
       /\ UNCHANGED primary
  ELSE /\ ShutdownSync(avail, TRUE)
       /\ UNCHANGED <<saveScheduled, chain, owedAtSignal, owedLearned>>

\* saveMemory() returns normally
Done(w) ==
  IF w = "queued"
  THEN FinishQueued(FALSE)
  ELSE /\ sd' = [sd EXCEPT !.pc = "backup"]
       /\ saves' = [saves EXCEPT ![w] = Idle]
       /\ UNCHANGED <<saveScheduled, chain, owedAtSignal, owedLearned>>

\* ------------------------------------------------------------ saveMemory
\* fs.writeFile(tempFile): the file is created or truncated
OpenTmp(w) ==
  /\ Alive
  /\ saves[w].pc = "openTmp"
  /\ tmpClash' = WritingAt(saves[Other(w)], "tmp")
  /\ tmpFile' = Torn
  /\ saves' = [saves EXCEPT ![w].pc = "writeTmp", ![w].ino = "tmp"]
  /\ UNCHANGED <<stats, saveScheduled, immediates, chain, primary, persTmp,
                 sd, faults, Counts, Config, owedLearned,
                 owedAtSignal>>
  /\ UNCHANGED ovars

\* fs.writeFile(tempFile) resolves: the bytes are in the file it opened,
\* whole unless another writeFile wrote the same file meanwhile
WriteTmp(w) ==
  /\ Alive
  /\ saves[w].pc = "writeTmp"
  /\ LET e == saves[w]
         busy == WritingAt(saves[Other(w)], "tmp")
     IN \E whole \in BOOLEAN :
          /\ CASE e.ino = "tmp" ->
                    /\ whole => ~busy
                    /\ ~whole => (busy \/ tmpClash)
                    /\ tmpFile' = IF whole THEN Pretty(e.snap) ELSE Torn
                    /\ tmpClash' = IF busy THEN tmpClash ELSE FALSE
                    /\ UNCHANGED primary
               [] e.ino = "primary" ->
                    /\ primary' = IF whole THEN Pretty(e.snap) ELSE Torn
                    /\ UNCHANGED <<tmpFile, tmpClash>>
               [] OTHER ->
                    /\ whole
                    /\ UNCHANGED <<tmpFile, tmpClash, primary>>
  /\ saves' = [saves EXCEPT ![w].pc = "renameTmp", ![w].ino = "none"]
  /\ UNCHANGED <<stats, saveScheduled, immediates, chain, persTmp,
                 sd, faults, Counts, Config, owedLearned,
                 owedAtSignal>>
  /\ UNCHANGED ovars

\* fs.rename(tempFile, MEMORY_FILE); ENOENT when the temp file is gone
RenameTmp(w) ==
  /\ Alive
  /\ saves[w].pc = "renameTmp"
  /\ IF tmpFile.kind = "absent"
     THEN /\ Throw(w, faults)
          /\ UNCHANGED <<tmpFile, tmpClash>>
     ELSE /\ primary' = tmpFile
          /\ tmpFile' = Absent
          /\ tmpClash' = FALSE
          /\ saves' = [x \in Savers |->
                        IF x = w THEN [saves[x] EXCEPT !.pc = "writePers"]
                        ELSE AfterRename(saves[x], TRUE)]
          /\ UNCHANGED <<saveScheduled, chain, sd, faults, owedAtSignal,
                         owedLearned>>
  /\ UNCHANGED <<stats, immediates, persTmp, Counts, Config>>
  /\ UNCHANGED ovars

\* fs.writeFile(persistentTemp)
WritePers(w) ==
  /\ Alive
  /\ saves[w].pc = "writePers"
  /\ persTmp' = TRUE
  /\ saves' = [saves EXCEPT ![w].pc = "renamePers"]
  /\ UNCHANGED <<stats, saveScheduled, immediates, chain, tmpFile, tmpClash,
                 primary, sd, faults, Counts, Config, owedLearned,
                 owedAtSignal>>
  /\ UNCHANGED ovars

\* fs.rename(persistentTemp, PERSISTENT_MEMORY_FILE) (ENOENT when another
\* save renamed it away), then the remote saves
\* are fired without await and saveMemory returns
RenamePers(w) ==
  /\ Alive
  /\ saves[w].pc = "renamePers"
  /\ IF ~persTmp
     THEN /\ Throw(w, faults)
          /\ UNCHANGED persTmp
     ELSE /\ persTmp' = FALSE
          /\ Done(w)
          /\ UNCHANGED <<primary, faults>>
  /\ UNCHANGED <<stats, immediates, tmpFile, tmpClash, Counts, Config>>
  /\ UNCHANGED ovars

\* the writeFile a save is waiting for rejects (EIO, ENOSPC, ...)
SaveFault(w) ==
  /\ Alive
  /\ saves[w].pc \in {"writeTmp", "writePers"}
  /\ faults > 0
  /\ Throw(w, faults - 1)
  /\ UNCHANGED <<stats, immediates, tmpFile, tmpClash, persTmp, Counts,
                 Config>>
  /\ UNCHANGED ovars

\* ------------------------------------------------------ gracefulShutdown
\* SIGTERM / SIGINT / SIGUSR2: up to `await saveQueue`; on a settled queue
\* the final saveMemory() starts in the handler's own microtasks
Signal ==
  /\ sd.pc = "none"
  /\ LET left == chain + (IF Running(saves["queued"]) THEN 1 ELSE 0)
     IN /\ sd' = [sd EXCEPT !.pc = IF left = 0 THEN "finalSave"
                                   ELSE "awaitQueue",
                            !.awaitLeft = left,
                            !.sigLearned = stats.learned]
        /\ saves' = IF left = 0
                    THEN [saves EXCEPT !["shutdown"] = StartSave(stats)]
                    ELSE saves
        /\ owedAtSignal' = left + immediates
  /\ UNCHANGED <<stats, saveScheduled, immediates, chain, Files, faults,
                 Counts, Config, owedLearned>>
  /\ UNCHANGED ovars

\* `await createBackup()` returns (it catches its own errors)
BackupDone ==
  /\ sd.pc = "backup"
  /\ ShutdownSync(faults, FALSE)
  /\ UNCHANGED <<stats, saveScheduled, immediates, chain, tmpFile, tmpClash,
                 persTmp, Counts, Config, owedLearned,
                 owedAtSignal>>
  /\ UNCHANGED ovars

\* `await pgPool.end()` returns: process.exit(0)
PgEnd ==
  /\ sd.pc = "pgEnd"
  /\ sd' = [sd EXCEPT !.pc = "exited"]
  /\ UNCHANGED <<stats, saveScheduled, immediates, chain, saves, Files,
                 faults, Counts, Config, owedLearned, owedAtSignal>>
  /\ UNCHANGED ovars

\* ------------------------------------------------------ the server's state
Sessions == {"s1"}
Backends == {"pg", "replit"}

EmptyMemory ==
  [contextPairs |-> <<>>, semanticClusters |-> <<>>, qualityScores |-> <<>>,
   stats |-> [learned |-> 0, totalMessages |-> 0, garbageFiltered |-> 0]]

\* JSON types of the fields loadMemory looks at
GoodTags == [stats |-> "object", contextPairs |-> "array",
             semanticClusters |-> "object"]

\* a text: none (no file, no row), not JSON, or JSON with the types of its
\* fields and, where they are a snapshot's, their content
NoText == [kind |-> "none"]
Corrupt == [kind |-> "corrupt"]

\* JSON.stringify(globalMemory, null, 2)
stringify(memory) == [kind |-> "json", tags |-> GoodTags, memory |-> memory]

NoReply == [session |-> "", message |-> <<>>, status |-> 0,
            response |-> <<>>, learned |-> FALSE, failures |-> 0]

IdleRun == [pc |-> "idle", snap |-> NoText]

NoOutcome == [result |-> "none", at |-> "none", snap |-> NoText,
              failed |-> 0]

IdleRemote == [state |-> "idle", data |-> NoText, sending |-> NoText,
               last |-> "none"]

\* the server has started; text: what the two files hold
ServerStart(text) ==
  /\ sessions = [s \in Sessions |-> <<>>]
  /\ reply = NoReply
  /\ garbageFiltered = 0
  /\ run = IdleRun
  /\ outcome = NoOutcome
  /\ disk = [primary |-> text, secondary |-> text]
  /\ remote = [b \in Backends |-> IdleRemote]
  /\ shape = GoodTags
  /\ listening = TRUE
  /\ boots = 0

\* ------------------------------------------------- beside the chat route
\* createBackup() is called by the backup timer and by gracefulShutdown
Runners == {"timer", "shutdown"}

IdleBackup == [pc |-> "idle", seen |-> {}, victims |-> <<>>, removed |-> {}]

NoEnd == [by |-> "none", error |-> FALSE, removed |-> {}]

\* BACKUP_DIR holds the files of dir; no createBackup() is running
BackupsAt(dir, clock) ==
  [dir |-> dir, clock |-> clock, started |-> 0, exiting |-> FALSE,
   runs |-> [r \in Runners |-> IdleBackup], ended |-> NoEnd]

NoResult == [by |-> "", allowed |-> FALSE, remaining |-> 0]

\* new RateLimiter(), at time 0
NoLimits == [limits |-> <<>>, time |-> 0, checks |-> 0, result |-> NoResult]

\* new APIClient(): no sendMessage call yet
NoClient == [pc |-> "idle", attempt |-> 0, requests |-> 0, delays |-> <<>>,
             errors |-> <<>>, returned |-> "none", thrown |-> "none",
             isOnline |-> TRUE, sends |-> 0]

\* The saves, the learner and the chat route neither read nor write the
\* backup directory, the limiter and the page's client: the specifications
\* of those leave the three aside, and each of the three has its own.
Aside == <<>>

Untouched ==
  /\ backups = Aside
  /\ rateLimiter = Aside
  /\ apiClient = Aside

\* no findBestResponse call yet, nothing cached
NoAnswer == [query |-> <<>>, response |-> <<>>, cached |-> FALSE, after |-> 0]

CacheInit ==
  /\ responseCache = <<>>
  /\ answer = NoAnswer
  /\ finds = 0

\* no learnPattern call yet
NoCall == [text |-> <<>>, input |-> <<>>, response |-> <<>>, quality |-> 0,
           n |-> 0, room |-> FALSE, exist |-> {}, at |-> 0]

Init ==
  /\ CoordInit
  /\ semanticClusters = <<>>
  /\ contextPairs = <<>>
  /\ qualityScores = <<>>
  /\ now = 0
  /\ learns = 0
  /\ last = NoCall
  /\ CacheInit
  /\ ServerStart(NoText)
  /\ replitOn = FALSE
  /\ Untouched

Next ==
  \/ \E learn \in BOOLEAN : Chat(learn)
  \/ PeriodicSave
  \/ ImmediateFires
  \/ \E w \in Savers : OpenTmp(w)
  \/ \E w \in Savers : WriteTmp(w)
  \/ \E w \in Savers : RenameTmp(w)
  \/ \E w \in Savers : WritePers(w)
  \/ \E w \in Savers : RenamePers(w)
  \/ \E w \in Savers : SaveFault(w)
  \/ Signal
  \/ BackupDone
  \/ PgEnd

Spec == Init /\ [][Next]_vars

\* ------------------------------------------- the process that runs on
\* no termination signal arrives; every setImmediate callback is run and
\* every file-system call of the queued save completes or fails
QueueNext ==
  \/ \E learn \in BOOLEAN : Chat(learn)
  \/ PeriodicSave
  \/ ImmediateFires
  \/ OpenTmp("queued")
  \/ WriteTmp("queued")
  \/ RenameTmp("queued")
  \/ WritePers("queued")
  \/ RenamePers("queued")
  \/ SaveFault("queued")

QueueFair ==
  /\ WF_vars(ImmediateFires)
  /\ WF_vars(OpenTmp("queued"))
  /\ WF_vars(WriteTmp("queued") \/ SaveFault("queued"))
  /\ WF_vars(RenameTmp("queued"))
  /\ WF_vars(WritePers("queued") \/ SaveFault("queued"))
  /\ WF_vars(RenamePers("queued"))

QueueSpec == Init /\ [][QueueNext]_vars /\ QueueFair

\* ============================================================ the learner
\* A text is the sequence of its whitespace-separated tokens.  Time is
\* counted in whole days.

\* String.prototype.toLowerCase on the tokens used here.
LowerTok(t) == CASE t = "Hello" -> "hello" [] OTHER -> t

\* .replace(/[^a-z0-9\s]/g, '') on the (lower-cased) tokens used here.
StripTok(t) == CASE t = "there!" -> "there" [] OTHER -> t

toLowerCase(text) == [i \in DOMAIN text |-> LowerTok(text[i])]

stopWords ==
  {"the", "a", "an", "and", "or", "but", "in", "on", "at", "to", "for",
   "of", "with", "by", "from", "is", "are", "was", "were", "be", "been",
   "being", "have", "has", "had", "do", "does", "did", "will", "would",
   "could", "should", "may", "might", "can", "this", "that", "these",
   "those", "i", "you", "he", "she", "it", "we", "they", "what", "which",
   "who", "when", "where", "why", "how"}

\* [...new Set(words)]: first occurrences, in order.
RECURSIVE Unique(_)
Unique(words) ==
  IF words = <<>> THEN <<>>
  ELSE LET h == Head(words)
           Differs(w) == w # h
       IN <<h>> \o Unique(SelectSeq(Tail(words), Differs))

extractKeywords(text) ==
  LET lower == toLowerCase(text)
      stripped == [i \in DOMAIN lower |-> StripTok(lower[i])]
      Kept(w) == Len(w) > 2 /\ w \notin stopWords
  IN Unique(SelectSeq(stripped, Kept))

\* --------------------------------------------------------------- entries
NewEntry(inputLower, response, quality, t) ==
  [input |-> inputLower, response |-> response, quality |-> quality,
   confidence |-> 1, timestamp |-> t]

Min2(a, b) == IF a < b THEN a ELSE b

ReinforceNoBoost(existing, t) ==
  [existing EXCEPT !.confidence = existing.confidence + 1,
                   !.timestamp = t]

Reinforce(existing, t) ==
  [existing EXCEPT !.confidence = existing.confidence + 1,
                   !.quality = Min2(MAX_QUALITY,
                                    existing.quality + REINFORCE_BOOST),
                   !.timestamp = t]

ageInDays(existing, t) == t - existing.timestamp

ShouldReplaceIfBetter(quality, existing, t) ==
  quality > existing.quality \/ ageInDays(existing, t) > RELEARN_DAYS

ShouldReplace(quality, existing, t) ==
  \/ quality > existing.quality + REPLACE_MARGIN
  \/ ageInDays(existing, t) > RELEARN_DAYS

\* F at the value of v: v is evaluated once, however often F uses it.
At(F(_), v) == CHOOSE r \in {F(x) : x \in {v}} : TRUE

FirstOf(hits) == IF hits = {} THEN 0
                 ELSE CHOOSE i \in hits : \A j \in hits : i <= j

\* a search that finds nothing
findIndexNever(list, inputLower) == 0

\* Array.prototype.findIndex(item => item.input === inputLower); 0 for -1.
findIndex(list, inputLower) ==
  At(FirstOf, {i \in 1..Len(list) : list[i].input = inputLower})

\* Reinforce, replace, keep or push: the body shared by the cluster loop
\* and the contextPairs branch.
Upsert(list, inputLower, response, quality, t) ==
  LET Found(i) ==
        IF i # 0
        THEN IF list[i].response = response
             THEN [list EXCEPT ![i] = Reinforce(list[i], t)]
             ELSE IF ShouldReplace(quality, list[i], t)
                  THEN [list EXCEPT ![i] =
                          NewEntry(inputLower, response, quality, t)]
                  ELSE list
        ELSE Append(list, NewEntry(inputLower, response, quality, t))
  IN At(Found, findIndex(list, inputLower))

Score(e) == e.quality * e.confidence

MaxOf(S) == CHOOSE m \in S : \A x \in S : x <= m

\* Array.prototype.sort with (a, b) => scoreB - scoreA: descending by score,
\* entries of equal score keep their order (the sort is stable).
RECURSIVE SortFrom(_, _)
SortFrom(list, scores) ==
  IF scores = {} THEN <<>>
  ELSE LET From(m) ==
             LET Has(e) == Score(e) = m
             IN SelectSeq(list, Has) \o SortFrom(list, scores \ {m})
       IN At(From, MaxOf(scores))

\* no sort: the list as it is
Unsorted(list) == list

SortByScore(list) ==
  SortFrom(list, {Score(list[i]) : i \in 1..Len(list)})

\* list.slice(0, cap)
KeepAll(list, cap) == list

slice(list, cap) == SubSeq(list, 1, Min2(cap, Len(list)))

CapCluster(list) ==
  LET Top(sorted) == IF Len(sorted) > CLUSTER_CAP
                     THEN slice(sorted, CLUSTER_CAP)
                     ELSE sorted
  IN At(Top, SortByScore(list))

\* cut to the first 1000 without sorting
CapPairsUnsorted(list) == slice(list, PAIRS_CAP)

CapPairs(list) ==
  LET Top(sorted) == slice(sorted, PAIRS_CAP)
  IN IF Len(list) > PAIRS_CAP THEN At(Top, SortByScore(list)) ELSE list

\* ----------------------------------------------------------- learnPattern
ClusterOf(clusters, k) == IF k \in DOMAIN clusters THEN clusters[k] ELSE <<>>

\* keywords.forEach(keyword => { ... })
RECURSIVE LearnClusters(_, _, _, _, _, _)
LearnClusters(clusters, keywords, inputLower, response, quality, t) ==
  IF keywords = <<>> THEN clusters
  ELSE LET k == Head(keywords)
           list == At(CapCluster, Upsert(ClusterOf(clusters, k), inputLower,
                                         response, quality, t))
           next == [x \in DOMAIN clusters \cup {k} |->
                      IF x = k THEN list ELSE clusters[x]]
       IN LearnClusters(next, Tail(keywords), inputLower, response,
                        quality, t)

\* contextPairs takes every pair, whatever its quality
LearnPairsAlways(pairs, inputLower, response, quality, t) ==
  At(CapPairs, Upsert(pairs, inputLower, response, quality, t))

LearnPairs(pairs, inputLower, response, quality, t) ==
  IF quality >= PAIR_MIN_QUALITY
  THEN At(CapPairs, Upsert(pairs, inputLower, response, quality, t))
  ELSE pairs

\* scores that keep the first quality of an input
SetScoreIfNew(scores, inputLower, quality) ==
  IF inputLower \in DOMAIN scores
  THEN scores
  ELSE scores @@ (inputLower :> quality)

SetScore(scores, inputLower, quality) ==
  IF inputLower \in DOMAIN scores
  THEN [scores EXCEPT ![inputLower] = quality]
  ELSE scores @@ (inputLower :> quality)

\* The store is globalMemory's three learned collections.
EmptyStore == [clusters |-> <<>>, pairs |-> <<>>, scores |-> <<>>]

learnPattern(store, input, response, quality, t) ==
  LET Learnt(inputLower) ==
        [clusters |-> LearnClusters(store.clusters, extractKeywords(input),
                                    inputLower, response, quality, t),
         pairs |-> LearnPairs(store.pairs, inputLower, response, quality, t),
         scores |-> SetScore(store.scores, inputLower, quality)]
  IN At(Learnt, toLowerCase(input))

\* ------------------------------------------------ a store that is full
\* Earlier learning: CLUSTER_CAP greetings whose only keyword is "hello",
\* then PAIRS_CAP inputs without any keyword, all of quality >= 60.
Greeting(i) ==
  [input |-> <<"hello", ToString(i)>>, response |-> <<"hi">>,
   quality |-> 70 + 10 * (i % 4)]

Chatter(j) ==
  [input |-> <<ToString(j \div 100), ToString(j % 100)>>,
   response |-> <<"ok">>, quality |-> 70 + 10 * (j % 3)]

Earlier(n) == IF n <= CLUSTER_CAP THEN Greeting(n)
              ELSE Chatter(n - CLUSTER_CAP - 1)

\* the calls lo..hi in order
RECURSIVE LearnAll(_, _, _)
LearnAll(store, lo, hi) ==
  IF lo = hi
  THEN learnPattern(store, Earlier(lo).input, Earlier(lo).response,
                    Earlier(lo).quality, 0)
  ELSE LET Rest(half) == LearnAll(half, (lo + hi) \div 2 + 1, hi)
       IN At(Rest, LearnAll(store, lo, (lo + hi) \div 2))

FullStore == LearnAll(EmptyStore, 1, CLUSTER_CAP + PAIRS_CAP)

\* ------------------------------------------------------------ the cache
\* An entry is [key, response, fresh]: fresh until more than
\* RESPONSE_CACHE_TTL_MS have passed since it was set.

\* ResponseCache._hash: md5 of message.toLowerCase().trim()
Hash(message) == toLowerCase(message)

\* a cache that answers with its first entry, whatever the key
KeyIndexFirst(cache, key) == IF Len(cache) > 0 THEN 1 ELSE 0

KeyIndex(cache, key) ==
  At(FirstOf, {i \in 1..Len(cache) : cache[i].key = key})

\* null, and the empty text, which `if (cached)` treats alike
Null == <<>>

\* a cache that returns an entry whatever its age
CacheGetAnyAge(cache, message) ==
  LET Got(i) ==
        IF i = 0 THEN [value |-> Null, cache |-> cache]
        ELSE [value |-> cache[i].response, cache |-> cache]
  IN At(Got, KeyIndex(cache, Hash(message)))

\* ResponseCache.get: [value, cache]
CacheGet(cache, message) ==
  LET Got(i) ==
        IF i = 0 THEN [value |-> Null, cache |-> cache]
        ELSE IF ~cache[i].fresh
             THEN [value |-> Null,
                   cache |-> SubSeq(cache, 1, i - 1) \o
                             SubSeq(cache, i + 1, Len(cache))]
             ELSE [value |-> cache[i].response, cache |-> cache]
  IN At(Got, KeyIndex(cache, Hash(message)))

\* ResponseCache.set
CacheSet(cache, message, response) ==
  LET entry == [key |-> Hash(message), response |-> response, fresh |-> TRUE]
      Put(i) == IF i = 0 THEN Append(cache, entry)
                ELSE [cache EXCEPT ![i] = entry]
      Limit(c) == IF Len(c) > CACHE_LIMIT THEN Tail(c) ELSE c
  IN Limit(At(Put, KeyIndex(cache, Hash(message))))

\* more than the time to live has passed
Expired(cache) == [i \in DOMAIN cache |-> [cache[i] EXCEPT !.fresh = FALSE]]

\* ------------------------------------------------------ findBestResponse
\* keywords.forEach(keyword => candidates = candidates.concat(cluster))
RECURSIVE Candidates(_, _)
Candidates(clusters, keywords) ==
  IF keywords = <<>> THEN <<>>
  ELSE ClusterOf(clusters, Head(keywords)) \o
       Candidates(clusters, Tail(keywords))

InSeq(x, seq) == \E i \in DOMAIN seq : seq[i] = x

\* keywords.filter(k => candidateKeywords.includes(k)).length
Overlap(keywords, candidateKeywords) ==
  Cardinality({i \in DOMAIN keywords : InSeq(keywords[i], candidateKeywords)})

\* relevanceScore = overlap / max(keywords.length, 1) * quality, times
\* keywords.length (the same for all candidates of a query)
Relevance(keywords, candidate) ==
  Overlap(keywords, extractKeywords(candidate.input)) * candidate.quality

\* scored.sort(...)[0]: the first candidate of the highest relevance
Best(keywords, candidates) ==
  LET top == MaxOf({Relevance(keywords, candidates[i]) :
                      i \in DOMAIN candidates})
  IN candidates[FirstOf({i \in DOMAIN candidates :
                          Relevance(keywords, candidates[i]) = top})]

\* steps 2 and 3, after a cache miss: the response or Null
Lookup(store, input) ==
  LET FromPairs(i) ==
        IF i # 0 THEN store.pairs[i].response
        ELSE LET FromClusters(keywords) ==
                   LET Scored(candidates) ==
                         IF Len(candidates) > 0
                         THEN LET Pick(best) ==
                                    IF Relevance(keywords, best) >
                                         MIN_RELEVANCE * Len(keywords)
                                    THEN best.response
                                    ELSE Null
                              IN At(Pick, Best(keywords, candidates))
                         ELSE Null
                   IN At(Scored, Candidates(store.clusters, keywords))
             IN At(FromClusters, extractKeywords(input))
  IN At(FromPairs, findIndex(store.pairs, toLowerCase(input)))

\* [response, cached, cache]
findBestResponse(store, cache, input) ==
  LET Miss(got) ==
        IF got.value # Null
        THEN [response |-> got.value, cached |-> TRUE, cache |-> got.cache]
        ELSE LET Hit(response) ==
                   [response |-> response, cached |-> FALSE,
                    cache |-> IF response # Null
                              THEN CacheSet(got.cache, input, response)
                              ELSE got.cache]
             IN At(Hit, Lookup(store, input))
  IN At(Miss, CacheGet(cache, input))

\* ---------------------------------------------------------------- calls
Inputs == {<<"Hello", "there!">>, <<"how", "are", "you">>}
Responses == {<<"hi">>, <<"hey">>}
Qualities == {50, 55, 61, 99}
Days == {1, 32}          \* the days, after day 0, on which calls are made

Store == [clusters |-> semanticClusters, pairs |-> contextPairs,
          scores |-> qualityScores]

EntriesOf(list, inputLower) ==
  {list[i] : i \in {j \in 1..Len(list) : list[j].input = inputLower}}

\* the entries the store holds for an input, in the clusters of its
\* keywords and in contextPairs
Holds(store, text) ==
  LET kws == extractKeywords(text)
  IN EntriesOf(store.pairs, toLowerCase(text)) \cup
     UNION {EntriesOf(ClusterOf(store.clusters, kws[i]), toLowerCase(text))
              : i \in DOMAIN kws}

AtLeast(list, score) ==
  Cardinality({i \in 1..Len(list) : Score(list[i]) >= score})

\* a new entry of this quality would survive the truncation of every list
\* it is pushed to
HasRoom(store, text, quality) ==
  LET kws == extractKeywords(text)
  IN /\ \A i \in DOMAIN kws :
          AtLeast(ClusterOf(store.clusters, kws[i]), quality) < CLUSTER_CAP
     /\ quality >= PAIR_MIN_QUALITY =>
          AtLeast(store.pairs, quality) < PAIRS_CAP

\* The call, the entries the store held for its input, and how many times
\* in a row the call has been made since the store held none (0: it did).
Record(text, response, quality) ==
  LET again == /\ last.n >= 1
               /\ last.input = toLowerCase(text)
               /\ last.response = response
               /\ last.quality = quality
      Rec(held) ==
        [text |-> text, input |-> toLowerCase(text), response |-> response,
         quality |-> quality,
         n |-> IF again THEN last.n + 1 ELSE IF held = {} THEN 1 ELSE 0,
         room |-> IF again THEN last.room
                  ELSE held = {} /\ HasRoom(Store, text, quality),
         exist |-> held,
         at |-> now]
  IN At(Rec, Holds(Store, text))

LearnInit ==
  /\ CoordInit
  /\ ~pgPoolOn
  /\ ~forceSync
  /\ \E store \in {EmptyStore, FullStore} :
       /\ semanticClusters = store.clusters
       /\ contextPairs = store.pairs
       /\ qualityScores = store.scores
  /\ now = 0
  /\ learns = 0
  /\ last = NoCall
  /\ CacheInit
  /\ ServerStart(NoText)
  /\ replitOn = FALSE
  /\ Untouched

LearnStep(text, response, quality) ==
  /\ \E store \in {learnPattern(Store, text, response, quality, now)} :
       /\ semanticClusters' = store.clusters
       /\ contextPairs' = store.pairs
       /\ qualityScores' = store.scores
  /\ learns' = learns + 1
  /\ last' = Record(text, response, quality)
  /\ UNCHANGED <<now, cvars, fvars, svars, pvars>>

Learn(text, response, quality) ==
  /\ learns < MaxLearns
  /\ LearnStep(text, response, quality)

Advance(day) ==
  /\ day > now
  /\ now' = day
  /\ responseCache' = Expired(responseCache)
  /\ UNCHANGED <<semanticClusters, contextPairs, qualityScores, learns,
                 last, answer, finds, cvars, svars, pvars>>

LearnNext ==
  \/ \E text \in Inputs, response \in Responses, quality \in Qualities :
       Learn(text, response, quality)
  \/ \E day \in Days : Advance(day)

LearnSpec == LearnInit /\ [][LearnNext]_vars

\* ------------------------------------------------------------ retrieval
Queries == Inputs \cup {<<"hello">>, <<"goodbye">>}

\* a retrieval that moves the pair it matched to the front of contextPairs
FindStepMovingToFront(query) ==
  /\ \E found \in {findBestResponse(Store, responseCache, query)} :
       /\ answer' = [query |-> query, response |-> found.response,
                     cached |-> found.cached, after |-> learns]
       /\ responseCache' = found.cache
  /\ \E i \in {findIndex(contextPairs, toLowerCase(query))} :
       contextPairs' = IF i = 0 THEN contextPairs
                       ELSE <<contextPairs[i]>> \o SubSeq(contextPairs, 1, i - 1)
                            \o SubSeq(contextPairs, i + 1, Len(contextPairs))
  /\ UNCHANGED <<semanticClusters, qualityScores, now, learns, last, cvars,
                 svars, pvars>>

FindStep(query) ==
  /\ \E found \in {findBestResponse(Store, responseCache, query)} :
       /\ answer' = [query |-> query, response |-> found.response,
                     cached |-> found.cached, after |-> learns]
       /\ responseCache' = found.cache
  /\ UNCHANGED <<lvars, cvars, svars, pvars>>

Find(query) ==
  /\ finds < MaxFinds
  /\ FindStep(query)
  /\ finds' = finds + 1

\* more than RESPONSE_CACHE_TTL_MS pass, within the day
Wait ==
  /\ {i \in DOMAIN responseCache : responseCache[i].fresh} # {}
  /\ responseCache' = Expired(responseCache)
  /\ UNCHANGED <<lvars, answer, finds, cvars, svars, pvars>>

FindNext ==
  \/ \E text \in Inputs, response \in Responses, quality \in Qualities :
       Learn(text, response, quality)
  \/ \E query \in Queries : Find(query)
  \/ Wait

\* retrieval starts from the empty store
FindInit == LearnInit /\ contextPairs = <<>>

FindSpec == FindInit /\ [][FindNext]_vars

\* ------------------------------------------- the learn/retrieve scenario
HowAreYou == <<"how", "are", "you">>

GoodYou == <<"good,", "you?">>
NotBad == <<"not", "bad">>

Script == <<[response |-> GoodYou, quality |-> 70],
            [response |-> NotBad, quality |-> 72],
            [response |-> NotBad, quality |-> 85]>>

\* the next learnPattern call of the scenario
Teach ==
  /\ learns < Len(Script)
  /\ LearnStep(HowAreYou, Script[learns + 1].response,
               Script[learns + 1].quality)

\* findBestResponse, at any moment
Ask(query) ==
  /\ FindStep(query)
  /\ UNCHANGED finds

ScenarioNext ==
  \/ Teach
  \/ \E query \in Queries : Ask(query)
  \/ Wait

ScenarioSpec == FindInit /\ [][ScenarioNext]_vars

\* ------------------------------------------------- the cache at its limit
\* "Hello there!" has been learned, and within the time to live
\* findBestResponse has answered "hello" and then other queries of the
\* keyword "hello", as many as the cache holds.
Taught == learnPattern(EmptyStore, <<"Hello", "there!">>, <<"hi">>, 99, 0)

Asked(n) == IF n = 1 THEN <<"hello">> ELSE <<"hello", ToString(n)>>

\* the cache after the queries lo..hi in order
RECURSIVE AskAll(_, _, _)
AskAll(cache, lo, hi) ==
  IF lo = hi
  THEN findBestResponse(Taught, cache, Asked(lo)).cache
  ELSE LET Rest(half) == AskAll(half, (lo + hi) \div 2 + 1, hi)
       IN At(Rest, AskAll(cache, lo, (lo + hi) \div 2))

FullCache == AskAll(<<>>, 1, CACHE_LIMIT)

CacheFullInit ==
  /\ CoordInit
  /\ ~pgPoolOn
  /\ ~forceSync
  /\ semanticClusters = Taught.clusters
  /\ contextPairs = Taught.pairs
  /\ qualityScores = Taught.scores
  /\ now = 0
  /\ learns = 0
  /\ last = NoCall
  /\ responseCache = FullCache
  /\ answer = NoAnswer
  /\ finds = 0
  /\ ServerStart(NoText)
  /\ replitOn = FALSE
  /\ Untouched

CacheNext ==
  \/ \E response \in Responses : Learn(<<"Hello", "there!">>, response, 99)
  \/ \E query \in Queries : Find(query)
  \/ Wait

CacheSpec == CacheFullInit /\ [][CacheNext]_vars

\* ============================================================= the server
\* The chat handler on the store, the queued save with its four file calls
\* and its remote backends, and the start of the process (loadMemory).

\* --------------------------------------------------------- text processing
speakerPrefixes == {"Human:", "User:"}

\* TextCleaner.clean: a leading speaker prefix is removed
clean(text) ==
  IF text # <<>> /\ Head(text) \in speakerPrefixes THEN Tail(text) ELSE text

spamPhrases == {<<"buy", "now">>, <<"click", "here">>}

Contains(text, phrase) ==
  \E i \in 1..(Len(text) - Len(phrase) + 1) :
     SubSeq(text, i, i + Len(phrase) - 1) = phrase

\* GarbageClassifier.isGarbage: the length check and the spam patterns
isGarbage(text) ==
  \/ Len(text) < 1
  \/ \E phrase \in spamPhrases : Contains(toLowerCase(text), phrase)

\* tokens that end in . ! or ?
punctuated == {"there!", "you?", "really?"}

Max2(a, b) == IF a > b THEN a ELSE b

\* GarbageClassifier.calculateQuality
calculateQuality(input, response) ==
  LET inputWords == Len(input)
      responseWords == Len(response)
      score ==
        50
        + (IF inputWords >= 1 /\ inputWords <= 50 THEN 15 ELSE 0)
        + (IF responseWords >= 1 /\ responseWords <= 100 THEN 15 ELSE 0)
        + (IF responseWords >= 3 /\ responseWords <= 20 THEN 10 ELSE 0)
        + (IF response # <<>> /\ response[Len(response)] \in punctuated
           THEN 5 ELSE 0)
        + (IF toLowerCase(input) # toLowerCase(response) THEN 5 ELSE 0)
  IN Max2(0, Min2(MAX_QUALITY, score))

\* the handler's garbage branch is taken
FilteredIfEmpty(cleaned) == cleaned = <<>>

Filtered(cleaned) == cleaned = <<>> \/ isGarbage(cleaned)

FixedReply == <<"Let's keep our conversation meaningful and respectful!">>

\* the fallback responses: the first two of the list the message selects
Fallbacks(lower) ==
  IF Head(lower) \in {"hi", "hey", "hello"}
  THEN {<<"hey">>, <<"hi">>}
  ELSE IF Contains(lower, <<"how", "are", "you">>)
       THEN {<<"good,", "you?">>, <<"pretty", "good!">>}
       ELSE IF Head(lower) \in {"what", "where", "when", "who", "why", "how"}
            THEN {<<"what", "do", "you", "think?">>,
                  <<"hmm,", "good", "question">>}
            ELSE {<<"oh", "really?">>, <<"interesting">>}

\* SessionManager.addToHistory
addToHistory(history, userMessage, aiResponse) ==
  LET pushed == Append(history, [user |-> userMessage, ai |-> aiResponse])
  IN IF Len(pushed) > MAX_CONVERSATION_HISTORY THEN Tail(pushed) ELSE pushed

\* a handler that pairs the message with itself
LessonOfSelf(history, cleaned) ==
  IF Len(history) >= 1
  THEN LET prevPair == history[Len(history)]
           quality == calculateQuality(prevPair.user, cleaned)
       IN [learn |-> /\ ~isGarbage(prevPair.user)
                     /\ ~isGarbage(cleaned)
                     /\ quality >= MIN_QUALITY_SCORE,
           input |-> prevPair.user, quality |-> quality]
  ELSE [learn |-> FALSE, input |-> <<>>, quality |-> 0]

\* what the handler learns after the push: the previous message of the
\* session as input, this message as response
Lesson(history, cleaned) ==
  IF Len(history) >= 2
  THEN LET prevPair == history[Len(history) - 1]
           quality == calculateQuality(prevPair.user, cleaned)
       IN [learn |-> /\ ~isGarbage(prevPair.user)
                     /\ ~isGarbage(cleaned)
                     /\ quality >= MIN_QUALITY_SCORE,
           input |-> prevPair.user, quality |-> quality]
  ELSE [learn |-> FALSE, input |-> <<>>, quality |-> 0]

\* ------------------------------------------------------------ globalMemory
MemoryOf(store, st, filtered) ==
  [contextPairs |-> store.pairs, semanticClusters |-> store.clusters,
   qualityScores |-> store.scores,
   stats |-> [learned |-> st.learned, totalMessages |-> st.totalMessages,
              garbageFiltered |-> filtered]]

Memory == MemoryOf(Store, stats, garbageFiltered)

\* whether an error of saveMemorySync() reaches the handler's catch-all:
\* saveMemorySync logs it, and the handler wraps the call in try/catch
SyncSaveRethrows(ok) == ~ok

SyncSaveThrows(ok) == FALSE

\* a save ended: the record of it
Ended(result, at, snap) ==
  [result |-> result, at |-> at, snap |-> snap,
   failed |-> outcome.failed + (IF result = "returned" THEN 0 ELSE 1)]

Messages == {<<"Hello", "there!">>, <<"how", "are", "you">>,
             <<"buy", "now">>, <<"Human:">>}

\* ------------------------------------------------- app.post('/api/chat')
\* a counter that goes down
Decremented(n) == n - 1

\* globalMemory.stats.garbageFiltered++
Incremented(n) == n + 1

\* the garbage branch
ServeFiltered(session, message) ==
  /\ garbageFiltered' = Incremented(garbageFiltered)
  /\ reply' = [session |-> session, message |-> message, status |-> 200,
               response |-> FixedReply, learned |-> FALSE,
               failures |-> outcome.failed]
  /\ UNCHANGED <<stats, saveScheduled, immediates, owedLearned, sessions,
                 outcome, disk, semanticClusters, contextPairs,
                 qualityScores, responseCache>>

\* contextPairs.find is not a function: the catch-all answers 500
ServeError(session, message) ==
  /\ reply' = [session |-> session, message |-> message, status |-> 500,
               response |-> <<>>, learned |-> FALSE,
               failures |-> outcome.failed]
  /\ UNCHANGED <<stats, saveScheduled, immediates, owedLearned, sessions,
                 outcome, disk, semanticClusters, contextPairs,
                 qualityScores, responseCache, garbageFiltered>>

\* findBestResponse or a fallback, the history, learning and the saves
ServeLearning(session, message, cleaned) ==
  \E found \in {findBestResponse(Store, responseCache, cleaned)} :
  \E response \in (IF found.response # Null THEN {found.response}
                   ELSE Fallbacks(toLowerCase(cleaned))) :
  \E history \in {addToHistory(sessions[session], cleaned, response)} :
  \E lesson \in {Lesson(history, cleaned)} :
  \E store \in {IF lesson.learn
                THEN learnPattern(Store, lesson.input, cleaned,
                                  lesson.quality, now)
                ELSE Store} :
  \E ok \in BOOLEAN :
    LET sync == lesson.learn /\ forceSync
        threw == sync /\ SyncSaveThrows(ok)
        s1 == IF lesson.learn THEN [stats EXCEPT !.learned = @ + 1]
              ELSE stats
        s2 == IF threw THEN s1 ELSE [s1 EXCEPT !.totalMessages = @ + 1]
        snap == stringify(MemoryOf(store, s1, garbageFiltered))
        c1 == IF lesson.learn /\ ~forceSync THEN queueSave(Coord, s1.learned)
              ELSE Coord
        c2 == IF ~threw /\ s2.totalMessages % SAVE_EVERY = 0
              THEN queueSave(c1, s2.learned) ELSE c1
    IN /\ ok \/ sync
       /\ responseCache' = found.cache
       /\ sessions' = [sessions EXCEPT ![session] = history]
       /\ semanticClusters' = store.clusters
       /\ contextPairs' = store.pairs
       /\ qualityScores' = store.scores
       /\ stats' = s2
       /\ SetCoord(c2)
       /\ disk' = IF sync /\ ok THEN [disk EXCEPT !.primary = snap] ELSE disk
       /\ outcome' = IF sync
                     THEN Ended(IF ok THEN "returned" ELSE "logged", "sync",
                                snap)
                     ELSE outcome
       /\ reply' = [session |-> session, message |-> message,
                    status |-> IF threw THEN 500 ELSE 200,
                    response |-> IF threw THEN <<>> ELSE response,
                    learned |-> ~threw /\ found.response # Null,
                    failures |-> outcome.failed]
       /\ UNCHANGED garbageFiltered

Serve(session, message) ==
  /\ listening
  /\ chats < MaxChats
  /\ chats' = chats + 1
  /\ \E cleaned \in {clean(message)} :
       IF Filtered(cleaned) THEN ServeFiltered(session, message)
       ELSE IF shape.contextPairs # "array"
            THEN ServeError(session, message)
            ELSE ServeLearning(session, message, cleaned)
  /\ UNCHANGED <<chain, saves, tmpFile, tmpClash, primary, persTmp, sd,
                 faults, ticks, pgPoolOn, forceSync, owedAtSignal>>
  /\ UNCHANGED <<now, learns, last, answer, finds>>
  /\ UNCHANGED <<run, remote, replitOn, shape, listening, boots>>
  /\ UNCHANGED pvars

\* ------------------------------------------------------- the queued save
StartRun(memory) == [pc |-> "writeTmp", snap |-> stringify(memory)]

\* the setImmediate callback of queueSave: the task is chained on saveQueue
\* and, on a settled queue, starts: saveScheduled = false, then saveMemory()
\* up to its first await
TaskStarts ==
  /\ immediates > 0
  /\ immediates' = immediates - 1
  /\ IF run.pc # "idle"
     THEN /\ chain' = chain + 1
          /\ UNCHANGED <<run, saveScheduled, owedLearned>>
     ELSE /\ saveScheduled' = TaskStartFlag(saveScheduled)
          /\ run' = StartRun(Memory)
          /\ owedLearned' = StillOwed(owedLearned, stats)
          /\ UNCHANGED chain
  /\ UNCHANGED <<stats, saves, tmpFile, tmpClash, primary, persTmp, sd,
                 faults, chats, ticks, pgPoolOn, forceSync, owedAtSignal>>
  /\ UNCHANGED <<lvars, fvars>>
  /\ UNCHANGED <<sessions, reply, garbageFiltered, outcome, disk, remote,
                 replitOn, shape, listening, boots>>
  /\ UNCHANGED pvars

NextLeg(pc) ==
  CASE pc = "writeTmp" -> "renameTmp"
    [] pc = "renameTmp" -> "writePers"
    [] pc = "writePers" -> "renamePers"
    [] OTHER -> "idle"

Configured(b) == IF b = "pg" THEN pgPoolOn ELSE replitOn

\* only Postgres is attempted
FireOne(stores, snap) ==
  [b \in Backends |->
     IF Configured(b) /\ b = "pg"
     THEN [stores[b] EXCEPT !.state = "pending", !.sending = snap]
     ELSE stores[b]]

\* saveMemoryToPostgres(memoryStr) and saveMemoryToReplitDB(memoryStr) are
\* called without await; each returns at once when it is not configured
Fire(stores, snap) ==
  [b \in Backends |->
     IF Configured(b)
     THEN [stores[b] EXCEPT !.state = "pending", !.sending = snap]
     ELSE stores[b]]

\* one file-system call of saveMemory() completes or fails.  A failure of
\* any of the four is thrown by saveMemory and caught by the .catch of the
\* queue; after the last one the remote saves are fired and saveMemory
\* returns.  The next chained task then starts.
FileStep(ok) ==
  /\ run.pc # "idle"
  /\ LET last4 == ok /\ run.pc = "renamePers"
         ends == ~ok \/ last4
         next == ends /\ chain > 0
     IN /\ disk' = IF ok /\ run.pc = "renameTmp"
                   THEN [disk EXCEPT !.primary = run.snap]
                   ELSE IF last4 THEN [disk EXCEPT !.secondary = run.snap]
                        ELSE disk
        /\ remote' = IF last4 THEN Fire(remote, run.snap) ELSE remote
        /\ outcome' = IF ends
                      THEN Ended(IF ok THEN "returned" ELSE "threw", run.pc,
                                 run.snap)
                      ELSE outcome
        /\ run' = IF ~ends THEN [run EXCEPT !.pc = NextLeg(run.pc)]
                  ELSE IF next THEN StartRun(Memory) ELSE IdleRun
        /\ saveScheduled' =
             IF ~ends THEN saveScheduled
             ELSE IF next
                  THEN TaskStartFlag(TaskEndFlag(saveScheduled, ~ok))
                  ELSE TaskEndFlag(saveScheduled, ~ok)
        /\ chain' = IF next THEN chain - 1 ELSE chain
        /\ owedLearned' = IF next THEN StillOwed(owedLearned, stats)
                          ELSE owedLearned
  /\ UNCHANGED <<stats, immediates, saves, tmpFile, tmpClash, primary,
                 persTmp, sd, faults, chats, ticks, pgPoolOn, forceSync,
                 owedAtSignal>>
  /\ UNCHANGED <<lvars, fvars>>
  /\ UNCHANGED <<sessions, reply, garbageFiltered, replitOn, shape,
                 listening, boots>>
  /\ UNCHANGED pvars

\* a remote backend answers: the text is stored, or the error is logged
RemoteSettles(b, ok) ==
  /\ remote[b].state = "pending"
  /\ remote' = [remote EXCEPT
                  ![b] = [state |-> "idle",
                          data |-> IF ok THEN remote[b].sending
                                   ELSE remote[b].data,
                          sending |-> NoText,
                          last |-> IF ok THEN "saved" ELSE "failed"]]
  /\ UNCHANGED <<cvars, lvars, fvars>>
  /\ UNCHANGED <<sessions, reply, garbageFiltered, run, outcome, disk,
                 replitOn, shape, listening, boots>>
  /\ UNCHANGED pvars

\* -------------------------------------------------------------- loadMemory
\* a JSON value that `&&` takes for true
Truthy(tag) == tag \notin {"missing", "null"}

\* the first source that gave a text: Postgres, Replit DB, the persistent
\* file, the primary file
FirstText(texts) ==
  LET hits == {i \in DOMAIN texts : texts[i].kind # "none"}
  IN IF hits = {} THEN NoText ELSE texts[At(FirstOf, hits)]

Sources == <<remote["pg"].data, remote["replit"].data, disk.secondary,
             disk.primary>>

\* loaded.stats && loaded.contextPairs && loaded.semanticClusters
Valid(text) ==
  /\ text.kind = "json"
  /\ Truthy(text.tags.stats)
  /\ Truthy(text.tags.contextPairs)
  /\ Truthy(text.tags.semanticClusters)

\* whether loadMemory() rejects when JSON.parse throws
RejectsOutsideTry(text) == text.kind = "corrupt"

\* JSON.parse is inside the try block: the error is logged
Rejects(text) == FALSE

\* globalMemory and its shape after loadMemory(), and whether it rejected
loadMemory(texts) ==
  LET Loaded(memoryStr) ==
        IF Valid(memoryStr)
        THEN [memory |-> memoryStr.memory, shape |-> memoryStr.tags,
              rejected |-> FALSE]
        ELSE [memory |-> EmptyMemory, shape |-> GoodTags,
              rejected |-> Rejects(memoryStr)]
  IN At(Loaded, FirstText(texts))

\* the process ends at any moment and starts again: globalMemory is the
\* default, loadMemory() runs, then app.listen
Restart ==
  /\ boots < MaxBoots
  /\ boots' = boots + 1
  /\ \E got \in {loadMemory(Sources)} :
       /\ contextPairs' = got.memory.contextPairs
       /\ semanticClusters' = got.memory.semanticClusters
       /\ qualityScores' = got.memory.qualityScores
       /\ stats' = [learned |-> got.memory.stats.learned,
                    totalMessages |-> got.memory.stats.totalMessages]
       /\ garbageFiltered' = got.memory.stats.garbageFiltered
       /\ shape' = got.shape
       /\ listening' = ~got.rejected
  /\ sessions' = [s \in Sessions |-> <<>>]
  /\ responseCache' = <<>>
  /\ reply' = NoReply
  /\ run' = IdleRun
  /\ outcome' = NoOutcome
  /\ saveScheduled' = FALSE
  /\ immediates' = 0
  /\ chain' = 0
  /\ owedLearned' = 0 - 1
  /\ remote' = [b \in Backends |->
                  [remote[b] EXCEPT !.state = "idle", !.sending = NoText]]
  /\ UNCHANGED <<saves, tmpFile, tmpClash, primary, persTmp, sd, faults,
                 chats, ticks, pgPoolOn, forceSync, owedAtSignal>>
  /\ UNCHANGED <<now, learns, last, answer, finds, disk, replitOn>>
  /\ UNCHANGED pvars

ServerInit ==
  /\ CoordInit
  /\ semanticClusters = <<>>
  /\ contextPairs = <<>>
  /\ qualityScores = <<>>
  /\ now = 0
  /\ learns = 0
  /\ last = NoCall
  /\ CacheInit
  /\ ServerStart(stringify(Memory))
  /\ replitOn \in BOOLEAN
  /\ Untouched

ServerNext ==
  \/ \E session \in Sessions, message \in Messages : Serve(session, message)
  \/ TaskStarts
  \/ \E ok \in BOOLEAN : FileStep(ok)
  \/ \E b \in Backends, ok \in BOOLEAN : RemoteSettles(b, ok)
  \/ Restart

ServerSpec == ServerInit /\ [][ServerNext]_vars

\* ------------------------------------------------- snapshots from outside
\* JSON texts of other shapes: contextPairs an object, contextPairs
\* missing, semanticClusters null, stats missing
Damaged ==
  {[kind |-> "json", tags |-> [GoodTags EXCEPT ![f] = t],
    memory |-> EmptyMemory] :
     <<f, t>> \in {<<"contextPairs", "object">>, <<"contextPairs", "missing">>,
                   <<"semanticClusters", "null">>, <<"stats", "missing">>}}

\* the process is about to start, without FORCE_SYNC_ON_LEARN; the
\* persistent file is any text, the primary file is absent or a snapshot
LoadInit ==
  /\ CoordInit
  /\ ~forceSync
  /\ semanticClusters = <<>>
  /\ contextPairs = <<>>
  /\ qualityScores = <<>>
  /\ now = 0
  /\ learns = 0
  /\ last = NoCall
  /\ CacheInit
  /\ sessions = [s \in Sessions |-> <<>>]
  /\ reply = NoReply
  /\ garbageFiltered = 0
  /\ run = IdleRun
  /\ outcome = NoOutcome
  /\ disk \in [primary : {NoText, stringify(Memory)},
               secondary : Damaged \cup {Corrupt, NoText, stringify(Memory)}]
  /\ remote = [b \in Backends |-> IdleRemote]
  /\ replitOn \in BOOLEAN
  /\ shape = GoodTags
  /\ listening = FALSE
  /\ boots = 0
  /\ Untouched

LoadSpec == LoadInit /\ [][ServerNext]_vars

\* ========================================================== createBackup
\* A backup file is [name, mtime]: the name is the timestamp of its
\* creation, mtime its modification time.

\* the file of the highest mtime
Newest(files) == CHOOSE f \in files : \A g \in files : g.mtime <= f.mtime

\* stats.sort((a, b) => b.mtime - a.mtime)
RECURSIVE SortByMtime(_)
SortByMtime(files) ==
  IF files = {} THEN <<>>
  ELSE <<Newest(files)>> \o SortByMtime(files \ {Newest(files)})

\* stats.slice(CONFIG.MAX_BACKUPS)
Surplus(sorted) == SubSeq(sorted, MAX_BACKUPS + 1, Len(sorted))

\* the run returns, or its catch block logs the error
BackupEnds(r, dir, error, removed) ==
  backups' = [backups EXCEPT !.dir = dir,
                             !.runs[r] = IdleBackup,
                             !.ended = [by |-> r, error |-> error,
                                        removed |-> removed]]

\* createBackup() is called and fs.copyFile(MEMORY_FILE, backupFile)
\* settles: the file is there, or the error is caught
StartBackup(r) ==
  /\ backups.runs[r].pc = "idle"
  /\ backups.started < MaxBackupRuns
  /\ r = "shutdown" => ~backups.exiting
  /\ \E ok \in BOOLEAN :
       LET at == backups.clock + 1
           counted == [backups EXCEPT !.clock = at, !.started = @ + 1,
                                      !.exiting = @ \/ r = "shutdown"]
       IN backups' =
            IF ok
            THEN [counted EXCEPT
                    !.dir = @ \cup {[name |-> at, mtime |-> at]},
                    !.runs[r].pc = "readdir"]
            ELSE [counted EXCEPT
                    !.ended = [by |-> r, error |-> TRUE, removed |-> {}]]
  /\ UNCHANGED <<cvars, lvars, fvars, svars, rateLimiter, apiClient>>

\* fs.readdir(BACKUP_DIR) resolves; with at most MAX_BACKUPS files the run
\* returns
ListBackups(r) ==
  /\ backups.runs[r].pc = "readdir"
  /\ IF Cardinality(backups.dir) > MAX_BACKUPS
     THEN backups' = [backups EXCEPT !.runs[r].pc = "stat",
                                     !.runs[r].seen = backups.dir]
     ELSE BackupEnds(r, backups.dir, FALSE, {})
  /\ UNCHANGED <<cvars, lvars, fvars, svars, rateLimiter, apiClient>>

\* Promise.all of fs.stat resolves, or rejects with ENOENT for a file that
\* is gone; then the sort and the slice
StatBackups(r) ==
  /\ backups.runs[r].pc = "stat"
  /\ IF backups.runs[r].seen \subseteq backups.dir
     THEN backups' =
            [backups EXCEPT
               !.runs[r].pc = "unlink",
               !.runs[r].victims = Surplus(SortByMtime(backups.runs[r].seen))]
     ELSE BackupEnds(r, backups.dir, TRUE, {})
  /\ UNCHANGED <<cvars, lvars, fvars, svars, rateLimiter, apiClient>>

\* fs.unlink(file.path) of the next surplus file resolves, or rejects with
\* ENOENT; after the last one the run returns
UnlinkBackup(r) ==
  /\ backups.runs[r].pc = "unlink"
  /\ LET b == backups.runs[r]
         file == Head(b.victims)
     IN IF file \notin backups.dir
        THEN BackupEnds(r, backups.dir, TRUE, b.removed)
        ELSE IF Len(b.victims) = 1
             THEN BackupEnds(r, backups.dir \ {file}, FALSE,
                             b.removed \cup {file})
             ELSE backups' =
                    [backups EXCEPT !.dir = @ \ {file},
                                    !.runs[r].victims = Tail(b.victims),
                                    !.runs[r].removed = @ \cup {file}]
  /\ UNCHANGED <<cvars, lvars, fvars, svars, rateLimiter, apiClient>>

\* the files earlier runs left: n backups made at the times 1..n, the
\* first of them rewritten afterwards or not
LeftBehind(n, touched) ==
  {[name |-> i, mtime |-> IF touched /\ i = 1 THEN n + 1 ELSE i] :
     i \in 1..n}

\* everything but the backups, the limiter and the page at rest
AtRest ==
  /\ CoordInit
  /\ ~pgPoolOn
  /\ ~forceSync
  /\ semanticClusters = <<>>
  /\ contextPairs = <<>>
  /\ qualityScores = <<>>
  /\ now = 0
  /\ learns = 0
  /\ last = NoCall
  /\ CacheInit
  /\ ServerStart(NoText)
  /\ replitOn = FALSE

BackupInit ==
  /\ AtRest
  /\ \E n \in {0, MAX_BACKUPS - 1, MAX_BACKUPS, MAX_BACKUPS + 2},
        touched \in BOOLEAN :
       backups = BackupsAt(LeftBehind(n, touched), n + 1)
  /\ rateLimiter = Aside
  /\ apiClient = Aside

BackupNext ==
  \/ \E r \in Runners : StartBackup(r)
  \/ \E r \in Runners : ListBackups(r)
  \/ \E r \in Runners : StatBackups(r)
  \/ \E r \in Runners : UnlinkBackup(r)

BackupSpec == BackupInit /\ [][BackupNext]_vars

\* ========================================================= the sessions
\* the chat route with two sessions, and SessionManager.cleanup
Visitors == {"s1", "s2"}

\* setInterval(() => sessionManager.cleanup(), 60 * 1000): the sessions
\* whose last activity is older than SESSION_TIMEOUT_MS, and the oldest
\* beyond MAX_SESSIONS, lose their entry and their conversation buffer
SessionCleanup(gone) ==
  /\ \E s \in gone : sessions[s] # <<>>
  /\ sessions' = [s \in DOMAIN sessions |->
                    IF s \in gone THEN <<>> ELSE sessions[s]]
  /\ UNCHANGED <<cvars, lvars, fvars, pvars>>
  /\ UNCHANGED <<reply, garbageFiltered, run, outcome, disk, remote,
                 replitOn, shape, listening, boots>>

SessionInit ==
  /\ CoordInit
  /\ ~pgPoolOn
  /\ semanticClusters = <<>>
  /\ contextPairs = <<>>
  /\ qualityScores = <<>>
  /\ now = 0
  /\ learns = 0
  /\ last = NoCall
  /\ CacheInit
  /\ sessions = [s \in Visitors |-> <<>>]
  /\ reply = NoReply
  /\ garbageFiltered = 0
  /\ run = IdleRun
  /\ outcome = NoOutcome
  /\ disk = [primary |-> stringify(Memory), secondary |-> stringify(Memory)]
  /\ remote = [b \in Backends |-> IdleRemote]
  /\ replitOn = FALSE
  /\ shape = GoodTags
  /\ listening = TRUE
  /\ boots = 0
  /\ Untouched

SessionNext ==
  \/ \E session \in Visitors, message \in Messages : Serve(session, message)
  \/ \E gone \in SUBSET Visitors : SessionCleanup(gone)

SessionSpec == SessionInit /\ [][SessionNext]_vars

\* =========================================================== RateLimiter
Clients == {"a", "b"}

\* a limiter that lets the request at the limit pass
OverLimit(count) == count > RATE_LIMIT_MAX_REQUESTS

\* limit.count >= CONFIG.RATE_LIMIT_MAX_REQUESTS
AtLimit(count) == count >= RATE_LIMIT_MAX_REQUESTS

\* RateLimiter.check(identifier) at the time t: [limits, result]
check(limits, identifier, t) ==
  IF identifier \notin DOMAIN limits \/ t > limits[identifier].resetTime
  THEN [limits |-> [k \in DOMAIN limits \cup {identifier} |->
                      IF k = identifier
                      THEN [count |-> 1,
                            resetTime |-> t + RATE_LIMIT_WINDOW_MS]
                      ELSE limits[k]],
        result |-> [by |-> identifier, allowed |-> TRUE,
                    remaining |-> RATE_LIMIT_MAX_REQUESTS - 1]]
  ELSE IF AtLimit(limits[identifier].count)
       THEN [limits |-> limits,
             result |-> [by |-> identifier, allowed |-> FALSE,
                         remaining |-> 0]]
       ELSE [limits |-> [limits EXCEPT ![identifier].count = @ + 1],
             result |-> [by |-> identifier, allowed |-> TRUE,
                         remaining |-> RATE_LIMIT_MAX_REQUESTS
                                         - (limits[identifier].count + 1)]]

\* the middleware: rateLimiter.check(ip) for a request
Check(ip) ==
  /\ rateLimiter.checks < MaxChecks
  /\ \E got \in {check(rateLimiter.limits, ip, rateLimiter.time)} :
       rateLimiter' = [rateLimiter EXCEPT !.limits = got.limits,
                                          !.result = got.result,
                                          !.checks = @ + 1]
  /\ UNCHANGED <<cvars, lvars, fvars, svars, backups, apiClient>>

\* half a window passes
Pass ==
  /\ rateLimiter.time < MaxPasses * (RATE_LIMIT_WINDOW_MS \div 2)
  /\ rateLimiter' =
       [rateLimiter EXCEPT !.time = @ + RATE_LIMIT_WINDOW_MS \div 2]
  /\ UNCHANGED <<cvars, lvars, fvars, svars, backups, apiClient>>

\* RateLimiter.cleanup, every 5 minutes
LimiterCleanup ==
  LET live == {k \in DOMAIN rateLimiter.limits :
                 ~(rateLimiter.time > rateLimiter.limits[k].resetTime)}
  IN /\ live # DOMAIN rateLimiter.limits
     /\ rateLimiter' =
          [rateLimiter EXCEPT !.limits = [k \in live |-> @[k]]]
     /\ UNCHANGED <<cvars, lvars, fvars, svars, backups, apiClient>>

\* client "a" has opened a window at time 0 and made n requests in it
After(n) ==
  [NoLimits EXCEPT
     !.limits = IF n = 0 THEN <<>>
                ELSE [k \in {"a"} |->
                        [count |-> n, resetTime |-> RATE_LIMIT_WINDOW_MS]]]

RateInit ==
  /\ AtRest
  /\ \E n \in {0, RATE_LIMIT_MAX_REQUESTS - 2, RATE_LIMIT_MAX_REQUESTS - 1,
               RATE_LIMIT_MAX_REQUESTS} :
       rateLimiter = After(n)
  /\ backups = Aside
  /\ apiClient = Aside

RateNext ==
  \/ \E ip \in Clients : Check(ip)
  \/ Pass
  \/ LimiterCleanup

RateSpec == RateInit /\ [][RateNext]_vars

\* ============================================================= APIClient
\* how a fetch of /api/chat can fail: no connection, an error status, a
\* body that is not JSON
Failures == {"TypeError", "HTTP 500", "HTTP 429", "SyntaxError"}

\* a client that retries after the last attempt too
RetriesAlways(attempt) == attempt < RETRY_ATTEMPTS

\* attempt < CONFIG.RETRY_ATTEMPTS - 1
Retries(attempt) == attempt < RETRY_ATTEMPTS - 1

\* CONFIG.RETRY_DELAY * (attempt + 1)
Backoff(attempt) == RETRY_DELAY * (attempt + 1)

\* sendMessage(message, sessionId): _retryFetch('/api/chat', options) with
\* attempt = 0, up to the first fetch
SendMessage ==
  /\ apiClient.pc = "idle"
  /\ apiClient.sends < MaxSends
  /\ apiClient' = [NoClient EXCEPT !.pc = "fetch",
                                   !.requests = 1,
                                   !.isOnline = apiClient.isOnline,
                                   !.sends = apiClient.sends + 1]
  /\ UNCHANGED <<cvars, lvars, fvars, svars, backups, rateLimiter>>

\* _fetch resolves with the parsed body: _retryFetch returns it
FetchResolves ==
  /\ apiClient.pc = "fetch"
  /\ apiClient' = [apiClient EXCEPT !.pc = "idle",
                                    !.returned = "response",
                                    !.isOnline = TRUE]
  /\ UNCHANGED <<cvars, lvars, fvars, svars, backups, rateLimiter>>

\* _fetch throws: the catch of _retryFetch starts the delay, or rethrows
FetchRejects(error) ==
  /\ apiClient.pc = "fetch"
  /\ LET failed == [apiClient EXCEPT
                      !.errors = Append(@, error),
                      !.isOnline = IF error = "TypeError" THEN FALSE ELSE @]
     IN apiClient' =
          IF Retries(apiClient.attempt)
          THEN [failed EXCEPT !.pc = "delay",
                              !.delays = Append(@, Backoff(apiClient.attempt))]
          ELSE [failed EXCEPT !.pc = "idle",
                              !.returned = "threw",
                              !.thrown = error]
  /\ UNCHANGED <<cvars, lvars, fvars, svars, backups, rateLimiter>>

\* the timer of _delay fires: _retryFetch(endpoint, options, attempt + 1)
DelayEnds ==
  /\ apiClient.pc = "delay"
  /\ apiClient' = [apiClient EXCEPT !.pc = "fetch",
                                    !.attempt = @ + 1,
                                    !.requests = @ + 1]
  /\ UNCHANGED <<cvars, lvars, fvars, svars, backups, rateLimiter>>

ClientInit ==
  /\ AtRest
  /\ apiClient = NoClient
  /\ backups = Aside
  /\ rateLimiter = Aside

ClientNext ==
  \/ SendMessage
  \/ FetchResolves
  \/ \E error \in Failures : FetchRejects(error)
  \/ DelayEnds

ClientSpec == ClientInit /\ [][ClientNext]_vars

\* ================================================================ claims
InFlight(w) == Running(saves[w])
Pending == immediates + chain
Exited == sd.pc = "exited"

\* C1: a mutation for which queueSave() was called is never dropped: as long
\* as no queued save has started whose snapshot contains it, a queued save is
\* scheduled (a setImmediate callback or a chained task is waiting), also
\* when the call came while a save was writing
C1_NoLostUpdate == owedLearned >= 0 => Pending > 0

\* a queued save is writing a snapshot that lacks a mutation, queueSave()
\* was called for the mutation, and the next task is chained behind it
C1_Witness ==
  /\ InFlight("queued")
  /\ saves["queued"].snap.learned < stats.learned
  /\ owedLearned = stats.learned
  /\ chain = 1

\* C2: no two executions of saveMemory overlap
C2_OneSaveInFlight == ~(InFlight("queued") /\ InFlight("shutdown"))

\* C3: at exit the primary file holds every mutation learned before the
\* signal (stated for the runs in which the saveMemorySync of
\* gracefulShutdown succeeded)
C3_AllLearnedAtExitIfSynced ==
  (Exited /\ sd.syncOk) =>
    primary.kind = "data" /\ primary.snap.learned >= sd.sigLearned

\* C4: at exit the primary file is the serialization of the in-memory store
\* (stated for runs without any file-system failure)
C4_FinalFlushEquality ==
  (Exited /\ faults = MaxFaults) =>
    primary.kind = "data" /\ primary.snap = stats

\* C5: the final save of gracefulShutdown begins only when every queued save
\* that was in flight or scheduled at the signal has completed
C5_FinalSaveAfterQueued ==
  [][(~InFlight("shutdown") /\ InFlight("shutdown")') => owedAtSignal' = 0]_vars

\* C6: when the final asynchronous save threw, saveMemorySync has run before
\* the exit, and when it succeeded the primary file holds the in-memory
\* state as of that call
C6_SyncFallback ==
  /\ []((Exited /\ sd.finalThrew) => sd.syncRan)
  /\ [][(~sd.syncRan /\ sd'.syncRan /\ sd'.syncOk) =>
          primary' = Compact(stats')]_vars
  /\ [][(sd.pc \in {"awaitQueue", "finalSave", "backup"}
          /\ sd'.pc \in {"pgEnd", "exited"}) => sd'.syncRan]_vars

\* the final save threw, the synchronous save ran and succeeded
C6_Witness ==
  /\ sd.finalThrew
  /\ sd.syncRan
  /\ sd.syncOk
  /\ primary = Compact(stats)

\* C7: a queueSave() call made while a queued save is requested and not yet
\* started adds no save execution
C7_Coalesced == [][immediates' > immediates => Pending = 0]_vars

\* ------------------------------------------------- claims on the learner
Called == learns > 0

IndicesOf(list, inputLower) ==
  {i \in 1..Len(list) : list[i].input = inputLower}

\* C8: every semantic cluster has at most 20 entries and contextPairs has at
\* most 1000 entries, after any sequence of learnPattern calls from an empty
\* or a full store
C8_Caps ==
  /\ \A k \in DOMAIN semanticClusters : Len(semanticClusters[k]) <= 20
  /\ Len(contextPairs) <= 1000

\* an input the store did not hold has been learned into a cluster of 20
\* entries and into contextPairs of 1000 entries, and is in both
C8_Witness ==
  /\ Called
  /\ last.n = 1
  /\ "hello" \in DOMAIN semanticClusters
  /\ Len(semanticClusters["hello"]) = 20
  /\ IndicesOf(semanticClusters["hello"], last.input) # {}
  /\ Len(contextPairs) = 1000
  /\ IndicesOf(contextPairs, last.input) # {}

\* the list holds exactly one entry for the input of the call c, with the
\* response of c, confidence N and quality min(100, base + 2 * (N - 1))
ReinforcedIn(list, c) ==
  /\ Cardinality(IndicesOf(list, c.input)) = 1
  /\ \A i \in IndicesOf(list, c.input) :
       /\ list[i].response = c.response
       /\ list[i].confidence = c.n
       /\ list[i].quality = IF c.quality + 2 * (c.n - 1) > 100 THEN 100
                            ELSE c.quality + 2 * (c.n - 1)

ReinforcedEverywhere(c) ==
  /\ \A i \in DOMAIN extractKeywords(c.text) :
       ReinforcedIn(ClusterOf(semanticClusters, extractKeywords(c.text)[i]), c)
  /\ c.quality >= 60 => ReinforcedIn(contextPairs, c)

\* C9 as stated: after learning the same (input, response) N times with the
\* same quality base, from any store that did not hold the input, every
\* cluster of a keyword of the input and (when base >= 60) contextPairs hold
\* exactly one entry for the input, with confidence N and quality
\* min(100, base + 2 * (N - 1))
C9_Reinforcement == last.n >= 1 => ReinforcedEverywhere(last)

\* C9 amended: the same, from any store that did not hold the input and in
\* which fewer than 20 entries of each cluster of a keyword of the input,
\* and (when base >= 60) fewer than 1000 entries of contextPairs, have
\* quality * confidence >= base
C9_ReinforcementWithRoom ==
  (last.n >= 1 /\ last.room) => ReinforcedEverywhere(last)

\* the same pair has been learned at least twice into a full store that had
\* room for it, the quality has reached the cap of 100, and the input has
\* keywords
C9_Witness ==
  /\ last.n >= 2
  /\ last.room
  /\ last.quality + 2 * (last.n - 1) > 100
  /\ extractKeywords(last.text) # <<>>
  /\ Len(contextPairs) = 1000

\* The entry of the list for the input of the call c, found with another
\* response, is afterwards the new entry (the response and quality of c,
\* confidence 1, timestamp of the call) if the quality of c exceeds its
\* quality by more than 10 or it is older than 30 days, and is unchanged
\* otherwise.
ReplacedIn(list, after, c) ==
  \A i \in IndicesOf(list, c.input) :
    list[i].response # c.response =>
      {after[j] : j \in IndicesOf(after, c.input)} =
        {IF c.quality > list[i].quality + 10 \/ c.at - list[i].timestamp > 30
         THEN [input |-> c.input, response |-> c.response,
               quality |-> c.quality, confidence |-> 1, timestamp |-> c.at]
         ELSE list[i]}

\* C10: when a learnPattern call finds an entry for the same input with a
\* different response (in each cluster of a keyword of the input, and in
\* contextPairs, which it searches when the new quality is >= 60), the
\* entry is replaced by the new one if and only if new quality >
\* existing.quality + 10 or the entry is older than 30 days, and is left
\* unchanged otherwise
C10_ReplacementPolicy ==
  [][learns' = learns + 1 =>
       /\ \A i \in DOMAIN extractKeywords(last'.text) :
            ReplacedIn(
              ClusterOf(semanticClusters, extractKeywords(last'.text)[i]),
              ClusterOf(semanticClusters', extractKeywords(last'.text)[i]),
              last')
       /\ last'.quality >= 60 =>
            ReplacedIn(contextPairs, contextPairs', last')]_vars

\* an entry of quality 50 learned one day before was found by a call with
\* another response and quality 61, and has been replaced
C10_Witness ==
  /\ Called
  /\ last.quality = 61
  /\ \E e \in last.exist :
       /\ e.quality = 50
       /\ e.response # last.response
       /\ last.at - e.timestamp = 1
  /\ \A e \in Holds(Store, last.text) :
       /\ e.response = last.response
       /\ e.quality = 61
       /\ e.confidence = 1
       /\ e.timestamp = last.at
  /\ Holds(Store, last.text) # {}


\* ------------------------------------------------------------- retrieval
\* the step is a findBestResponse call of FindSpec
Found == finds' = finds + 1

\* the patterns the store holds, in contextPairs and in the clusters
Stored(store) ==
  {store.pairs[i] : i \in DOMAIN store.pairs} \cup
  UNION {{ClusterOf(store.clusters, k)[i] :
            i \in DOMAIN ClusterOf(store.clusters, k)} :
           k \in DOMAIN store.clusters}

\* the query has no keyword in common with any stored pattern's input
ZeroOverlap(store, query) ==
  \A e \in Stored(store) :
     Overlap(extractKeywords(query), extractKeywords(e.input)) = 0

\* C11: a findBestResponse call for a query whose lowercased text is the
\* input of a contextPairs entry returns that entry's response, whatever
\* findBestResponse and learnPattern calls were made before
C11_ExactMatchPrecedence ==
  [][Found =>
       \A i \in IndicesOf(contextPairs, toLowerCase(answer'.query)) :
          answer'.response = contextPairs[i].response]_vars

C13_Scenario ==
  answer.query = HowAreYou /\ answer.after >= 1 =>
    answer.response = IF answer.after = 3 THEN NotBad ELSE GoodYou


\* ------------------------------------------------- claims on the server
\* the step is a chat request
Served == chats' = chats + 1

\* the step is a start of the process
Booted == boots' = boots + 1

StoreAfter == [clusters |-> semanticClusters', pairs |-> contextPairs',
               scores |-> qualityScores']

MemoryAfter == MemoryOf(StoreAfter, stats', garbageFiltered')

\* C14: whatever saves have failed, a chat request is answered with status
\* 200; a request that is not filtered gets a response, is added to the
\* session's history, and learnPattern has been applied to the store
C14_SaveFailuresIsolated ==
  [][Served =>
       /\ reply'.status = 200
       /\ \A cleaned \in {clean(reply'.message)} :
            ~(cleaned = <<>> \/ isGarbage(cleaned)) =>
              /\ reply'.response # <<>>
              /\ sessions'[reply'.session] =
                   addToHistory(sessions[reply'.session], cleaned,
                                reply'.response)
              /\ \A lesson \in {Lesson(sessions'[reply'.session], cleaned)} :
                   StoreAfter = IF lesson.learn
                                THEN learnPattern(Store, lesson.input, cleaned,
                                                  lesson.quality, now)
                                ELSE Store]_vars

\* C14: no save has succeeded (both files are as at the start), one has
\* failed, and the request served after the failure learned a pattern
C14_Witness ==
  /\ reply.failures >= 1
  /\ reply.status = 200
  /\ contextPairs # <<>>
  /\ boots = 0
  /\ disk.primary = disk.secondary
  /\ disk.primary.memory.stats.totalMessages = SAVE_EVERY - 1
  /\ \A b \in Backends : remote[b] = IdleRemote

\* a remote save is started in the step
Fired ==
  \E b \in Backends : remote'[b].state = "pending" /\ remote'[b] # remote[b]

\* a remote backend answers in the step
Answered ==
  \E b \in Backends : remote[b].state = "pending" /\ remote'[b].last # "none"
                      /\ remote'[b].state = "idle" /\ boots' = boots

\* C15: the remote saves are started in the step in which saveMemory returns,
\* after the persistent file is written, for every configured backend; and
\* the answer of a backend, good or bad, changes neither the save in flight,
\* nor the files, nor the other backend
C15_RemoteIsolation ==
  [][/\ Fired =>
          /\ outcome'.result = "returned"
          /\ outcome'.at = "renamePers"
          /\ outcome'.snap = run.snap
          /\ disk'.secondary = run.snap
          /\ run'.pc \in {"idle", "writeTmp"}
          /\ \A b \in Backends :
               Configured(b) => /\ remote'[b].state = "pending"
                                /\ remote'[b].sending = run.snap
     /\ Answered =>
          /\ UNCHANGED <<run, outcome, disk>>
          /\ \A b \in Backends :
               remote'[b] = remote[b] \/ remote[b].state = "pending"
    ]_vars

\* C15: Postgres has not answered, Replit DB has failed, and saveMemory has
\* returned with both files written
C15_Witness ==
  /\ remote["pg"].state = "pending"
  /\ remote["replit"].last = "failed"
  /\ remote["replit"].state = "idle"
  /\ outcome.result = "returned"
  /\ outcome.at = "renamePers"
  /\ disk.primary = outcome.snap
  /\ disk.secondary = outcome.snap
  /\ run.pc = "idle"

\* C16: a failure of the write or the rename of the persistent file does not
\* make saveMemory throw
C16_SecondaryBestEffort ==
  outcome.at \in {"writePers", "renamePers"} => outcome.result = "returned"

\* C17: after loadMemory, contextPairs is a sequence and semanticClusters a
\* mapping
C17_ShapeAfterLoad ==
  shape.contextPairs = "array" /\ shape.semanticClusters = "object"

\* C18: when the text loadMemory reads is not JSON, loadMemory does not
\* reject, the server listens and the store is the empty default
C18_CorruptSnapshot ==
  [][Booted /\ FirstText(Sources).kind = "corrupt" =>
       /\ listening'
       /\ MemoryAfter = EmptyMemory
       /\ shape' = GoodTags]_vars

\* C18: the server started on a corrupt persistent file, with the defaults
C18_Witness ==
  /\ boots = 1
  /\ chats = 0
  /\ disk.secondary = Corrupt
  /\ listening
  /\ Memory = EmptyMemory

C20_GarbageNonMutating ==
  [][Served /\ (clean(reply'.message) = <<>>
                \/ isGarbage(clean(reply'.message))) =>
       /\ reply'.status = 200
       /\ reply'.response = FixedReply
       /\ reply'.learned = FALSE
       /\ UNCHANGED <<contextPairs, semanticClusters, qualityScores,
                      sessions, responseCache>>]_vars

\* C20: after one exchange in the session, a spam message got the fixed
\* response
C20_Witness ==
  /\ reply.message = <<"buy", "now">>
  /\ reply.response = FixedReply
  /\ Len(sessions["s1"]) = 1
  /\ garbageFiltered = 1

\* ------------------------------------- claims on saving what was learned
\* the step is a chat request that called learnPattern
Learned == Served /\ stats'.learned = stats.learned + 1

\* C21: a chat request that called learnPattern has called queueSave()
\* before it returns, so that after the step a queued save that has not
\* started yet is waiting for the mutation, and one is waiting as long as
\* no queued save has started since the call
C21_SaveOwedAfterLearning ==
  /\ [][Learned => Pending' > 0 /\ owedLearned' = stats'.learned]_vars
  /\ [](owedLearned >= 0 => Pending > 0)

\* C21 (amended): without FORCE_SYNC_ON_LEARN the same; with it, the chat
\* request calls saveMemorySync() instead, on a snapshot that holds the
\* learned store, and the primary file is that snapshot when the call
\* succeeded
C21_SaveOrSyncAfterLearning ==
  /\ [][Learned =>
          IF forceSync
          THEN /\ outcome'.at = "sync"
               /\ outcome'.snap.memory.contextPairs = contextPairs'
               /\ outcome'.snap.memory.semanticClusters = semanticClusters'
               /\ outcome'.snap.memory.stats.learned = stats'.learned
               /\ outcome'.result = "returned" => disk'.primary = outcome'.snap
          ELSE Pending' > 0 /\ owedLearned' = stats'.learned]_vars
  /\ [](owedLearned >= 0 => Pending > 0)

\* C21: a pattern was learned, queueSave() was called for it, and the queued
\* save that started afterwards is writing a snapshot that holds it
C21_Witness ==
  /\ ~forceSync
  /\ stats.learned = 1
  /\ contextPairs # <<>>
  /\ owedLearned < 0
  /\ run.pc = "renameTmp"
  /\ run.snap.memory.stats.learned = 1
  /\ run.snap.memory.contextPairs = contextPairs

\* C22: in every step of the running process (a chat request, a step of a
\* save, an answer of a remote store) no counter of stats goes down
C22_StatsMonotone ==
  [][~Booted =>
       /\ stats'.totalMessages >= stats.totalMessages
       /\ stats'.learned >= stats.learned
       /\ garbageFiltered' >= garbageFiltered]_vars

\* C22: a request was filtered, another was counted, and a save of the
\* counters has returned
C22_Witness ==
  /\ boots = 0
  /\ garbageFiltered = 1
  /\ stats.totalMessages = SAVE_EVERY
  /\ outcome.result = "returned"
  /\ outcome.at = "renamePers"
  /\ outcome.snap.memory.stats.garbageFiltered = 1

\* ------------------------------------------------- claims on the queue
\* nothing scheduled, nothing chained, no save in flight
QueueIdle == Pending = 0 /\ ~InFlight("queued") /\ ~saveScheduled

\* C23: in the process that runs on, every queueSave() call is followed by
\* the start of a queued save, every queued save that started completes or
\* fails, and the coordinator ends idle
C23_EverySaveRuns ==
  /\ (owedLearned >= 0) ~> (owedLearned < 0)
  /\ InFlight("queued") ~> ~InFlight("queued")
  /\ <>[]QueueIdle

\* C23: all requests were made, one save failed, and the coordinator is idle
\* with the latest state in the primary file
C23_Witness ==
  /\ chats = 2
  /\ ticks = 1
  /\ faults = 0
  /\ ~forceSync
  /\ QueueIdle
  /\ owedLearned < 0
  /\ primary = Pretty(stats)

\* C24: saveScheduled is true exactly when a queued save that was requested
\* has not started yet (its setImmediate callback or its chained task is
\* waiting), and at most one such save is waiting
C24_FlagTruth == (saveScheduled <=> Pending > 0) /\ Pending <= 1

\* --------------------------------------- claims on the learner's lists
\* what the copies must agree on
Payload(e) == <<e.response, e.quality, e.confidence>>

\* C25: all stored copies of one input, in the clusters of its keywords and
\* in contextPairs, have the same response, quality and confidence
C25_CopiesAgree ==
  \A text \in Inputs :
     Cardinality({Payload(e) : e \in Holds(Store, text)}) <= 1

\* the list is in descending order of quality * confidence
Descending(list) ==
  \A i \in 1..(Len(list) - 1) : Score(list[i]) >= Score(list[i + 1])

\* the entries that were in the list, or were pushed by the call c, and
\* are not in the list afterwards
Dropped(list, after, c) ==
  {e \in {list[i] : i \in 1..Len(list)} \cup
         (IF IndicesOf(list, c.input) = {}
          THEN {[input |-> c.input, response |-> c.response,
                 quality |-> c.quality, confidence |-> 1,
                 timestamp |-> c.at]}
          ELSE {}) :
     IndicesOf(after, e.input) = {}}

\* C26: after a learnPattern call each cluster of a keyword of the input is
\* in descending order of quality * confidence, and an entry dropped by the
\* call has a score no higher than any entry kept
C26_ClusterOrder ==
  [][learns' = learns + 1 =>
       \A i \in DOMAIN extractKeywords(last'.text) :
         \A k \in {extractKeywords(last'.text)[i]} :
           /\ Descending(semanticClusters'[k])
           /\ \A e \in Dropped(ClusterOf(semanticClusters, k),
                               semanticClusters'[k], last') :
                /\ Len(ClusterOf(semanticClusters, k)) = 20
                /\ Len(semanticClusters'[k]) = 20
                /\ \A j \in 1..20 :
                     Score(semanticClusters'[k][j]) >= Score(e)]_vars

\* C26: a new input of quality 99 was learned into the full cluster
\* "hello": it stands behind the entries of score 100 and an entry of the
\* lowest score was dropped
C26_Witness ==
  /\ last.n = 1
  /\ last.quality = 99
  /\ "hello" \in DOMAIN semanticClusters
  /\ Len(semanticClusters["hello"]) = 20
  /\ \E i \in 2..19 : semanticClusters["hello"][i].input = last.input
  /\ IndicesOf(semanticClusters["hello"], <<"hello", "20">>) = {}

\* the list holds an entry for the input of list[i]; its place is looked
\* at first, and the next, where it is after an insertion before it
StillIn(after, list, i) ==
  \/ i <= Len(after) /\ after[i].input = list[i].input
  \/ i + 1 <= Len(after) /\ after[i + 1].input = list[i].input
  \/ IndicesOf(after, list[i].input) # {}

\* the scores of the entries that were in the list, or were pushed by the
\* call c, and are not in the list afterwards
DroppedScores(list, after, c) ==
  {Score(list[i]) : i \in {n \in DOMAIN list : ~StillIn(after, list, n)}}
    \cup (IF IndicesOf(list, c.input) = {} /\ IndicesOf(after, c.input) = {}
          THEN {c.quality} ELSE {})

\* the entries keep their places, a new one at the end
InPlace(list, after, input, new) ==
  /\ Len(after) = Len(list) + (IF new THEN 1 ELSE 0)
  /\ \A i \in DOMAIN list : after[i].input = list[i].input
  /\ new => after[Len(after)].input = input

\* C27 (as claimed): after every learnPattern call with quality >= 60,
\* contextPairs is in descending order of quality * confidence and has at
\* most 1000 entries
C27_PairsSorted ==
  [][learns' = learns + 1 /\ last'.quality >= 60 =>
       Descending(contextPairs') /\ Len(contextPairs') <= 1000]_vars

\* C27 (amended): after every learnPattern call with quality >= 60,
\* contextPairs has at most 1000 entries; when the call pushed a 1001st
\* entry, contextPairs is in descending order of quality * confidence and
\* the entry dropped has a score no higher than any entry kept; otherwise
\* the entries keep their places, a new one at the end
C27_PairsSortedWhenCut ==
  [][learns' = learns + 1 /\ last'.quality >= 60 =>
       /\ Len(contextPairs') <= 1000
       /\ \A new \in {IndicesOf(contextPairs, last'.input) = {}} :
            IF new /\ Len(contextPairs) = 1000
            THEN /\ Descending(contextPairs')
                 /\ \A score \in DroppedScores(contextPairs, contextPairs',
                                                last') :
                      \A j \in DOMAIN contextPairs' :
                        Score(contextPairs'[j]) >= score
            ELSE InPlace(contextPairs, contextPairs', last'.input, new)]_vars

\* C27: a new input of quality 99 was learned into the full contextPairs:
\* the list is sorted, the input stands behind the entries of score 100
C27_Witness ==
  /\ last.n = 1
  /\ last.quality = 99
  /\ Len(contextPairs) = 1000
  /\ Descending(contextPairs)
  /\ \E i \in 2..999 : /\ contextPairs[i].input = last.input
                       /\ Score(contextPairs[i - 1]) = 100
                       /\ Score(contextPairs[i + 1]) < 99

\* the list holds at most one entry per input
UniqueInputs(list) ==
  Cardinality({list[i].input : i \in DOMAIN list}) = Len(list)

\* C28: after any sequence of learnPattern calls on a store without
\* duplicates, contextPairs holds at most one entry per lowercased input,
\* and so does every cluster
C28_UniqueByInput ==
  /\ UniqueInputs(contextPairs)
  /\ \A k \in DOMAIN semanticClusters : UniqueInputs(semanticClusters[k])

\* C28: an input with keywords was learned twice, with two responses, the
\* second time with quality >= 60, and is stored once in each list
C28_Witness ==
  /\ learns = 2
  /\ last.quality >= 60
  /\ \E e \in last.exist : e.response # last.response
  /\ Cardinality(IndicesOf(contextPairs, last.input)) = 1
  /\ \A i \in DOMAIN extractKeywords(last.text) :
       Cardinality(IndicesOf(semanticClusters[extractKeywords(last.text)[i]],
                             last.input)) = 1
  /\ extractKeywords(last.text) # <<>>

\* the inputs that contextPairs holds
PairInputs(pairs) == {pairs[i].input : i \in DOMAIN pairs}

\* the input of after[i] had an entry in the list; its place is looked at
\* first, and the one before, where it was before an insertion before it
WasIn(list, after, i) ==
  \/ i <= Len(list) /\ list[i].input = after[i].input
  \/ i > 1 /\ i - 1 <= Len(list) /\ list[i - 1].input = after[i].input
  \/ IndicesOf(list, after[i].input) # {}

\* C29: every contextPairs entry has quality >= 60, and an input enters
\* contextPairs only in a learnPattern call for that input with quality >= 60
C29_PairsHighQuality ==
  /\ [](\A i \in DOMAIN contextPairs : contextPairs[i].quality >= 60)
  /\ [][\A i \in DOMAIN contextPairs' :
          \/ WasIn(contextPairs, contextPairs', i)
          \/ /\ learns' = learns + 1
             /\ last'.input = contextPairs'[i].input
             /\ last'.quality >= 60]_vars

\* C29: of two inputs learned from the empty store, the one learned with
\* quality 55 is in its clusters only and the one learned with quality 61
\* is in contextPairs
C29_Witness ==
  /\ learns = 2
  /\ last.quality = 61
  /\ PairInputs(contextPairs) = {last.input}
  /\ last.input = <<"how", "are", "you">>
  /\ "hello" \in DOMAIN semanticClusters
  /\ semanticClusters["hello"][1].quality = 55
  /\ Len(semanticClusters["hello"]) = 1

\* ------------------------------------------------ claims on the threshold
\* the entries of the clusters of the query's keywords
CandidateSet(store, query) ==
  UNION {{ClusterOf(store.clusters, extractKeywords(query)[i])[j] :
            j \in DOMAIN ClusterOf(store.clusters, extractKeywords(query)[i])} :
           i \in DOMAIN extractKeywords(query)}

\* overlap / max(|keywords|, 1) * quality > 30, and no candidate's
\* relevance is higher (both sides times the number of keywords)
TopAboveThreshold(query, candidates, e) ==
  /\ Relevance(extractKeywords(query), e)
       > 30 * Max2(Len(extractKeywords(query)), 1)
  /\ \A other \in candidates :
       Relevance(extractKeywords(query), e)
         >= Relevance(extractKeywords(query), other)

\* C30: when no contextPairs entry has the lowercased query as input,
\* findBestResponse returns the response of a candidate of maximal
\* relevance, among the entries of the clusters of the query's keywords, if
\* that relevance is greater than 30, and null otherwise
C30_ClusterThreshold ==
  [][Found /\ IndicesOf(contextPairs, toLowerCase(answer'.query)) = {} =>
       \A candidates \in {CandidateSet(Store, answer'.query)} :
         IF \E e \in candidates :
              TopAboveThreshold(answer'.query, candidates, e)
         THEN \E e \in candidates :
                /\ TopAboveThreshold(answer'.query, candidates, e)
                /\ answer'.response = e.response
         ELSE answer'.response = Null]_vars

\* ---------------------------------------------------------------- C31
\* the cache holds an entry of this age for the normalized input
CachedAt(cache, input, fresh) ==
  \E i \in DOMAIN cache :
     cache[i].key = toLowerCase(input) /\ cache[i].fresh = fresh

\* the response the cache holds for the normalized input
CachedFor(cache, input) ==
  cache[FirstOf({i \in DOMAIN cache : cache[i].key = toLowerCase(input)})]
    .response

\* the call answers from the cache exactly when it holds an entry for the
\* normalized input that is not older than the time to live, and then with
\* that entry's response, whatever the store holds
HitWhenFresh ==
  /\ answer'.cached <=> CachedAt(responseCache, answer'.query, TRUE)
  /\ answer'.cached =>
       /\ answer'.response = CachedFor(responseCache, answer'.query)
       /\ responseCache' = responseCache

\* an entry older than the time to live is not returned, and is gone after
\* the lookup
StaleRemoved ==
  CachedAt(responseCache, answer'.query, FALSE) =>
    /\ ~answer'.cached
    /\ ~CachedAt(responseCache', answer'.query, FALSE)

\* the entry at position i is still held, and fresh, after the call
StillCached(i) ==
  LET Same(j) == /\ j \in DOMAIN responseCache'
                 /\ responseCache'[j].key = responseCache[i].key
                 /\ responseCache'[j].fresh
  IN \/ Same(i)
     \/ Same(i - 1)
     \/ \E j \in DOMAIN responseCache' : Same(j)

\* the call stores a key the cache does not hold in a cache at its limit
Overflows ==
  /\ Len(responseCache) = CACHE_LIMIT
  /\ ~answer'.cached
  /\ answer'.response # Null
  /\ ~CachedAt(responseCache, answer'.query, TRUE)
  /\ ~CachedAt(responseCache, answer'.query, FALSE)

\* C31, as stated: findBestResponse answers from the cache, without
\* consulting the store, exactly when an entry for the normalized input was
\* stored at most the time to live earlier: every entry stored and not yet
\* older than that is still there for the next call; an older entry is never
\* returned and is removed on lookup
C31_HitIffStoredWithinTtl ==
  [][Found =>
       /\ HitWhenFresh
       /\ StaleRemoved
       /\ \A i \in DOMAIN responseCache :
            responseCache[i].fresh => StillCached(i)]_vars

\* C31, amended: the same, except that storing a new key in a cache of 1000
\* entries removes the entry that was inserted first, whatever its age
C31_HitIffHeldWithinTtl ==
  [][Found =>
       /\ HitWhenFresh
       /\ StaleRemoved
       /\ \A i \in DOMAIN responseCache :
            responseCache[i].fresh =>
              \/ StillCached(i)
              \/ i = 1 /\ Overflows]_vars

\* "hello" was answered and cached first; "Hello there!" was then stored in
\* the full cache, and "hello", asked again within the time to live, was not
\* answered from the cache
C31_Witness ==
  /\ finds = 2
  /\ answer.query = <<"hello">>
  /\ ~answer.cached
  /\ answer.response # Null
  /\ Len(responseCache) = CACHE_LIMIT
  /\ responseCache[CACHE_LIMIT].key = <<"hello">>
  /\ responseCache[CACHE_LIMIT - 1].key = <<"hello", "there!">>
  /\ \A i \in DOMAIN responseCache : responseCache[i].fresh

\* ---------------------------------------------------------------- C32
\* C32: findBestResponse is read-only on the knowledge base: a call leaves
\* contextPairs, semanticClusters, qualityScores and stats exactly as they
\* were, entries, order, quality, confidence and timestamps
C32_RetrievalReadOnly ==
  [][Found => UNCHANGED <<contextPairs, semanticClusters, qualityScores,
                          stats>>]_vars

\* two pairs have been learned and a query was answered from the store, by
\* the pair that is not the first
C32_Witness ==
  /\ finds > 0
  /\ Len(contextPairs) = 2
  /\ answer.after = 2
  /\ ~answer.cached
  /\ findIndex(contextPairs, toLowerCase(answer.query)) = 2
  /\ answer.response = contextPairs[2].response

\* ---------------------------------------------------------------- C33
\* C33: after every learnPattern(input, response, quality) call,
\* qualityScores[lowercased input] is the quality passed to that call,
\* whether the call inserted, reinforced, replaced or left the entry, and
\* whether or not the entry survived the truncation
C33_LastQuality ==
  Called => /\ last.input \in DOMAIN qualityScores
            /\ qualityScores[last.input] = last.quality

\* a new input of quality 50 was learned into the full cluster and did not
\* survive the truncation: the store holds no entry for it, and its score
C33_Witness ==
  /\ Called
  /\ last.quality = 50
  /\ last.exist = {}
  /\ Len(contextPairs) = PAIRS_CAP
  /\ Holds(Store, last.text) = {}
  /\ qualityScores[last.input] = 50

\* ---------------------------------------------------------------- C34
\* the patterns of a snapshot's store
StoredIn(text) ==
  Stored([clusters |-> text.memory.semanticClusters,
          pairs |-> text.memory.contextPairs,
          scores |-> text.memory.qualityScores])

\* C34: with FORCE_SYNC_ON_LEARN, a pattern learned by a chat request has
\* been written to storage when the response is sent, and when the process
\* is killed after the response the next loadMemory restores a store that
\* contains the pattern, whatever earlier saves left in the files and the
\* remote backends
C34_DurableWhenForced ==
  [][Booted /\ forceSync /\ outcome.at = "sync" =>
       StoredIn(outcome.snap) \subseteq Stored(StoreAfter)]_vars

\* ---------------------------------------------------------------- C35
\* C35: the primary file is only changed by renaming a fully written temp
\* file onto it and no two saves write the same temp file at the same time:
\* in every state the primary file is absent or one complete snapshot
C35_PrimaryWhole ==
  /\ primary.kind \in {"absent", "data"}
  /\ ~(WritingAt(saves["queued"], "tmp") /\ WritingAt(saves["shutdown"], "tmp"))

\* ---------------------------------------------------------------- C36
\* snapshot a was taken no later than snapshot b
NotAfter(a, b) ==
  a.learned <= b.learned /\ a.totalMessages <= b.totalMessages

\* C36: the snapshots installed in the primary file are ordered like the
\* in-memory states they were taken from: a save whose snapshot was taken
\* earlier never overwrites the content of a save whose snapshot was taken
\* later, queued, shutdown and synchronous saves included
C36_SnapshotsForward ==
  [][primary.kind = "data" /\ primary'.kind = "data" =>
       NotAfter(primary.snap, primary'.snap)]_vars

\* ---------------------------------------------------------------- C37
\* a createBackup run ends in the step, without an error
Completes(r) ==
  /\ backups.runs[r].pc # "idle"
  /\ backups'.runs[r].pc = "idle"
  /\ ~backups'.ended.error

\* C37: after any createBackup run that completes without error the backup
\* directory holds at most MAX_BACKUPS backup files, and the files removed
\* are the oldest ones by modification time
C37_Retention ==
  [][\A r \in Runners :
       Completes(r) =>
         /\ Cardinality(backups'.dir) <= MAX_BACKUPS
         /\ \A f \in backups'.ended.removed, g \in backups'.dir :
              f.mtime <= g.mtime]_vars

\* ---------------------------------------------------------------- C38
\* C38: a non-garbage chat request calls learnPattern at most once, with the
\* previous stored user message of the same session as input and the
\* cleaned message as response; the first message of a session, or the
\* first after its cleanup, learns nothing, and the histories of the other
\* sessions are neither read nor written
C38_PairsWithinSession ==
  [][Served /\ reply'.status = 200 /\ ~Filtered(clean(reply'.message)) =>
       LET s == reply'.session
           cleaned == clean(reply'.message)
           before == sessions[s]
       IN /\ \A t \in DOMAIN sessions \ {s} : sessions'[t] = sessions[t]
          /\ \/ /\ stats'.learned = stats.learned
                /\ UNCHANGED <<contextPairs, semanticClusters, qualityScores>>
             \/ /\ Len(before) >= 1
                /\ stats'.learned = stats.learned + 1
                /\ StoreAfter =
                     learnPattern(Store, before[Len(before)].user, cleaned,
                                  calculateQuality(before[Len(before)].user,
                                                   cleaned), now)]_vars

\* one message in each of two sessions: nothing was learned
C38_Witness ==
  /\ chats = 2
  /\ Len(sessions["s1"]) = 1
  /\ Len(sessions["s2"]) = 1
  /\ sessions["s1"][1].user = <<"Hello", "there!">>
  /\ sessions["s2"][1].user = <<"how", "are", "you">>
  /\ stats.learned = 0
  /\ contextPairs = <<>>

\* ---------------------------------------------------------------- C39
\* the step is a check() call
Checked == rateLimiter'.checks = rateLimiter.checks + 1

\* the client's window is open: resetTime has not passed
WindowOpen(ip) ==
  /\ ip \in DOMAIN rateLimiter.limits
  /\ rateLimiter.time <= rateLimiter.limits[ip].resetTime

\* C39: for each client, the calls of one window are allowed until
\* RATE_LIMIT_MAX_REQUESTS of them were (count is the number allowed in the
\* window) and every later call of the window is rejected; the first call
\* after resetTime opens a new window with count 1; the remaining value
\* reported is never negative
C39_RateWindow ==
  /\ [][Checked =>
          LET ip == rateLimiter'.result.by
              after == rateLimiter'.limits[ip]
          IN IF WindowOpen(ip)
             THEN LET before == rateLimiter.limits[ip]
                  IN /\ rateLimiter'.result.allowed <=>
                          before.count < RATE_LIMIT_MAX_REQUESTS
                     /\ after.count = before.count +
                          (IF rateLimiter'.result.allowed THEN 1 ELSE 0)
                     /\ after.resetTime = before.resetTime
             ELSE /\ rateLimiter'.result.allowed
                  /\ after.count = 1
                  /\ after.resetTime =
                       rateLimiter.time + RATE_LIMIT_WINDOW_MS]_vars
  /\ [](/\ rateLimiter.result.remaining >= 0
        /\ \A ip \in DOMAIN rateLimiter.limits :
             rateLimiter.limits[ip].count \in 1..RATE_LIMIT_MAX_REQUESTS)

\* client "a" has used its 60 requests and the next one, within the window,
\* was rejected
C39_Witness ==
  /\ rateLimiter.checks > 0
  /\ rateLimiter.result.by = "a"
  /\ ~rateLimiter.result.allowed
  /\ rateLimiter.result.remaining = 0
  /\ rateLimiter.limits["a"].count = RATE_LIMIT_MAX_REQUESTS
  /\ rateLimiter.time > 0

\* ---------------------------------------------------------------- C40
\* the delays waited before the second and the third request
Waits == <<RETRY_DELAY, 2 * RETRY_DELAY>>

\* C40: sendMessage makes at most RETRY_ATTEMPTS requests for one message,
\* each after a failure of the one before and a wait of RETRY_DELAY times
\* the attempt number; it returns the first successful response without a
\* further request, and rethrows the last error after the third failure
C40_RetryBound ==
  /\ [](/\ apiClient.requests <= RETRY_ATTEMPTS
        /\ Len(apiClient.delays) <= Len(Waits)
        /\ apiClient.delays = SubSeq(Waits, 1, Len(apiClient.delays))
        /\ Len(apiClient.delays) =
             (IF apiClient.pc = "delay" \/ apiClient.requests = 0
              THEN apiClient.requests
              ELSE apiClient.requests - 1)
        /\ apiClient.returned = "response" =>
             /\ apiClient.pc = "idle"
             /\ Len(apiClient.errors) = apiClient.requests - 1
        /\ apiClient.returned = "threw" =>
             /\ apiClient.pc = "idle"
             /\ apiClient.requests = RETRY_ATTEMPTS
             /\ Len(apiClient.errors) = RETRY_ATTEMPTS
             /\ apiClient.thrown = apiClient.errors[RETRY_ATTEMPTS])
  /\ [][apiClient.returned # "none" /\ apiClient'.sends = apiClient.sends =>
          apiClient' = apiClient]_vars
  /\ [][apiClient'.requests > apiClient.requests /\ apiClient.requests > 0 =>
          /\ apiClient.pc = "delay"
          /\ Len(apiClient.errors) = apiClient.requests]_vars

\* three requests failed, after waits of 1000 and 2000 ms, and the last
\* error was rethrown
C40_Witness ==
  /\ apiClient.returned = "threw"
  /\ apiClient.requests = 3
  /\ apiClient.delays = <<1000, 2000>>
  /\ apiClient.errors = <<"TypeError", "HTTP 500", "HTTP 429">>
  /\ apiClient.thrown = "HTTP 429"

====
